---- MODULE Spec2Model ----
(***************************************************************************)
(* Model of the order matching engine of the P2P exchange node.            *)
(*                                                                         *)
(* Order      : src/unnamed/part_000, lines 99-392  (models/Order.ts)      *)
(* OrderBook  : src/src/models/Order.test.ts, lines 109-426                *)
(*              (models/OrderBook.ts)                                      *)
(*                                                                         *)
(* JavaScript objects are modelled by a heap: an address maps to an Order  *)
(* or to an OrderMatch record, and the book's arrays hold addresses, so    *)
(* that two references to one object (a resting order that is also the     *)
(* buyOrder of a match record) are one heap cell.                          *)
(***************************************************************************)
EXTENDS Integers, Sequences, FiniteSets, TLC

\* ------------------------------------------------------------------ bounds
MaxCalls == 3       \* accepted addOrder calls and caller writes in a behaviour
MaxVersion == 3     \* a caller stops mutating an order at this version
MaxOrderCalls == 4  \* updateAfterMatch and cancel calls on one order
MaxAmount == 3      \* the largest amount of an order that is used on its own
MaxSubmits == 2     \* submitOrder calls of a node in a behaviour

\* Order ids are the strings "1", "2", "3"; localeCompare orders them as <.
\* 0 is the empty string.
Ids == {1, 2}
Prices == {1, 2}
Amounts == {1, 2}
Times == {1}

\* ------------------------------------------------------- enums of the source
BUY == "buy"
SELL == "sell"
OrderType == {BUY, SELL}

OPEN == "open"
FILLED == "filled"
PARTIALLY_FILLED == "partially_filled"
CANCELLED == "cancelled"
OrderStatus == {OPEN, FILLED, PARTIALLY_FILLED, CANCELLED}

Null == "null"            \* an absent (undefined) field of OrderData
NoError == "none"         \* no exception thrown

\* ------------------------------------------------------------------- Order
\* The characters of the client ids in use (a TLC string is atomic).
Chars(s) ==
    CASE s = "" -> <<>>
      [] s = " " -> <<" ">>
      [] s = " \t " -> <<" ", "\t", " ">>
      [] s = " c " -> <<" ", "c", " ">>
      [] s = "client" -> <<"c", "l", "i", "e", "n", "t">>
      [] s = "peer" -> <<"p", "e", "e", "r">>

WhiteSpace == {" ", "\t", "\n"}

\* String.prototype.trim on a sequence of characters.
RECURSIVE trim(_)
trim(cs) ==
    IF cs = <<>> THEN cs
    ELSE IF Head(cs) \in WhiteSpace THEN trim(Tail(cs))
    ELSE IF cs[Len(cs)] \in WhiteSpace THEN trim(SubSeq(cs, 1, Len(cs) - 1))
    ELSE cs

\* validateInputs without the clientId check.
validateInputsAnyClient(data) ==
    IF data.price <= 0 THEN "INVALID_PRICE"
    ELSE IF data.amount < 0 \/ (data.status # FILLED /\ data.amount = 0)
         THEN "INVALID_AMOUNT"
    ELSE IF data.type \notin OrderType THEN "INVALID_TYPE"
    ELSE IF data.status # Null /\ data.status \notin OrderStatus
         THEN "INVALID_STATUS"
    ELSE NoError

\* Order.validateInputs: the error code of the constructor, NoError if none,
\* for a price and an amount that are numbers (NaN is a step of its own,
\* ConstructNaN). A clientId of Null is one that is no string.
validateInputs(data) ==
    IF data.price <= 0 THEN "INVALID_PRICE"
    ELSE IF data.amount < 0 \/ (data.status # FILLED /\ data.amount = 0)
         THEN "INVALID_AMOUNT"
    ELSE IF data.clientId = Null THEN "INVALID_CLIENT_ID"
    ELSE IF trim(Chars(data.clientId)) = <<>> THEN "INVALID_CLIENT_ID"
    ELSE IF data.type \notin OrderType THEN "INVALID_TYPE"
    ELSE IF data.status # Null /\ data.status \notin OrderStatus
         THEN "INVALID_STATUS"
    ELSE NoError

\* Order constructor: data.originalAmount = 0 and data.status = Null stand
\* for an absent field (`||` takes the default for both).
NewOrder(data) ==
    [kind |-> "order",
     id |-> data.id,
     type |-> data.type,
     price |-> data.price,
     amount |-> data.amount,
     originalAmount |-> IF data.originalAmount = 0 THEN data.amount
                        ELSE data.originalAmount,
     timestamp |-> data.timestamp,
     status |-> IF data.status = Null THEN OPEN ELSE data.status,
     clientId |-> data.clientId,
     version |-> 1]

isActive(o) == o.status = OPEN \/ o.status = PARTIALLY_FILLED

\* Order.validateFilledAmount for a number that is not NaN: error code,
\* NoError if the fill is accepted.
validateFilledAmount(o, filledAmount) ==
    IF filledAmount <= 0 THEN "NEGATIVE_FILLED_AMOUNT"
    ELSE IF filledAmount > o.amount THEN "FILLED_AMOUNT_EXCEEDS_AVAILABLE"
    ELSE NoError

\* updateStatus without the FILLED branch.
updateStatusNeverFilled(o) ==
    IF o.amount < o.originalAmount THEN [o EXCEPT !.status = PARTIALLY_FILLED]
    ELSE o

\* Order.updateStatus
updateStatus(o) ==
    IF o.amount = 0 THEN [o EXCEPT !.status = FILLED]
    ELSE IF o.amount < o.originalAmount
         THEN [o EXCEPT !.status = PARTIALLY_FILLED]
    ELSE o

\* Order.updateAfterMatch, for a fill that validateFilledAmount accepts.
updateAfterMatch(o, filledAmount) ==
    updateStatus([o EXCEPT !.amount = o.amount - filledAmount,
                           !.version = o.version + 1])

\* cancel that leaves the status as it is.
cancelKeepsStatus(o) == [o EXCEPT !.version = o.version + 1]

\* Order.cancel, for an order that is not FILLED (a FILLED one throws).
cancel(o) == [o EXCEPT !.status = CANCELLED, !.version = o.version + 1]

\* canMatchWith that compares the prices the same way on both sides.
canMatchWithAsBuyer(a, b) ==
    IF a.type = b.type THEN FALSE
    ELSE IF ~isActive(a) \/ ~isActive(b) THEN FALSE
    ELSE a.price >= b.price

\* Order.canMatchWith: this = a, argument = b.
canMatchWith(a, b) ==
    IF a.type = b.type THEN FALSE
    ELSE IF ~isActive(a) \/ ~isActive(b) THEN FALSE
    ELSE IF a.type = BUY THEN a.price >= b.price
    ELSE a.price <= b.price

\* The OrderData clone hands to the constructor.
cloneData(o) ==
    [id |-> o.id, type |-> o.type, price |-> o.price,
     amount |-> o.amount, clientId |-> o.clientId,
     originalAmount |-> o.originalAmount,
     timestamp |-> o.timestamp, status |-> o.status]

\* clone that hands neither status nor originalAmount to the constructor.
cloneWithDefaults(o) ==
    NewOrder([cloneData(o) EXCEPT !.originalAmount = 0, !.status = Null])

\* Order.clone: a new object built by the constructor from the fields.
clone(o) == NewOrder(cloneData(o))

\* --------------------------------------------------------------- sequences
Min(a, b) == IF a <= b THEN a ELSE b

RECURSIVE Dedup(_)
Dedup(s) ==
    IF s = <<>> THEN <<>>
    ELSE LET r == Dedup(SubSeq(s, 1, Len(s) - 1))
             x == s[Len(s)]
         IN IF \E i \in DOMAIN r : r[i] = x THEN r ELSE Append(r, x)

\* Array.prototype.findIndex with the test o.id === orderId; 0 for -1.
FindIndexById(h, orders, orderId) ==
    IF \E i \in DOMAIN orders : h[orders[i]].id = orderId
    THEN CHOOSE i \in DOMAIN orders :
            /\ h[orders[i]].id = orderId
            /\ \A j \in 1..(i - 1) : h[orders[j]].id # orderId
    ELSE 0

RemoveAt(s, i) == SubSeq(s, 1, i - 1) \o SubSeq(s, i + 1, Len(s))

\* --------------------------------------------------------------- OrderBook
\* A candidate comparator for an incoming BUY that puts the newest first.
compareForBuyNewestFirst(a, b) ==
    LET priceDiff == a.price - b.price
        timeDiff == b.timestamp - a.timestamp
    IN IF priceDiff # 0 THEN priceDiff
       ELSE IF timeDiff # 0 THEN timeDiff
       ELSE a.id - b.id

\* The comparator addOrder sorts the candidates of an incoming BUY with:
\* ascending sell price, then ascending timestamp, then id (localeCompare).
compareForBuy(a, b) ==
    LET priceDiff == a.price - b.price
        timeDiff == a.timestamp - b.timestamp
    IN IF priceDiff # 0 THEN priceDiff
       ELSE IF timeDiff # 0 THEN timeDiff
       ELSE a.id - b.id

\* The comparator addOrder sorts the candidates of an incoming SELL with:
\* descending buy price, then ascending timestamp, then id.
compareForSell(a, b) ==
    LET priceDiff == b.price - a.price
        timeDiff == a.timestamp - b.timestamp
    IN IF priceDiff # 0 THEN priceDiff
       ELSE IF timeDiff # 0 THEN timeDiff
       ELSE a.id - b.id

\* A comparator for the buy collection that ignores the timestamp.
compareBuyOrdersNoTime(a, b) ==
    LET priceDiff == b.price - a.price
    IN IF priceDiff # 0 THEN priceDiff
       ELSE a.id - b.id

\* The comparator of sortBuyOrders: descending price, ascending timestamp, id.
compareBuyOrders(a, b) ==
    LET priceDiff == b.price - a.price
        timeDiff == a.timestamp - b.timestamp
    IN IF priceDiff # 0 THEN priceDiff
       ELSE IF timeDiff # 0 THEN timeDiff
       ELSE a.id - b.id

\* The comparator of sortSellOrders: ascending price, ascending timestamp, id.
compareSellOrders(a, b) ==
    LET priceDiff == a.price - b.price
        timeDiff == a.timestamp - b.timestamp
    IN IF priceDiff # 0 THEN priceDiff
       ELSE IF timeDiff # 0 THEN timeDiff
       ELSE a.id - b.id

\* The comparator a sort runs with, by the place of the sort in the source.
Compare(which, a, b) ==
    IF which = "forBuy" THEN compareForBuy(a, b)
    ELSE IF which = "forSell" THEN compareForSell(a, b)
    ELSE IF which = "buyOrders" THEN compareBuyOrders(a, b)
    ELSE compareSellOrders(a, b)

\* Array.prototype.sort with a comparator: a stable sort. An element is
\* inserted behind every element it does not compare below.
RECURSIVE InsertSorted(_, _, _, _)
InsertSorted(h, which, s, x) ==
    IF s = <<>> THEN <<x>>
    ELSE IF Compare(which, h[x], h[s[Len(s)]]) < 0
         THEN Append(InsertSorted(h, which, SubSeq(s, 1, Len(s) - 1), x), s[Len(s)])
    ELSE Append(s, x)

RECURSIVE StableSort(_, _, _)
StableSort(h, which, s) ==
    IF s = <<>> THEN <<>>
    ELSE InsertSorted(h, which, StableSort(h, which, SubSeq(s, 1, Len(s) - 1)),
                      s[Len(s)])

\* OrderBook.sortBuyOrders
sortBuyOrders(h, orders) == StableSort(h, "buyOrders", orders)

\* OrderBook.sortSellOrders
sortSellOrders(h, orders) == StableSort(h, "sellOrders", orders)

\* findOrderById that looks in the buy collection only.
findOrderByIdInBuy(h, buy, sell, orderId) ==
    LET bi == FindIndexById(h, buy, orderId)
    IN IF bi # 0 THEN buy[bi] ELSE 0

\* OrderBook.findOrderById: the address of the live order, 0 for undefined.
findOrderById(h, buy, sell, orderId) ==
    LET bi == FindIndexById(h, buy, orderId)
        si == FindIndexById(h, sell, orderId)
    IN IF bi # 0 THEN buy[bi] ELSE IF si # 0 THEN sell[si] ELSE 0

\* removeOrder that removes nothing.
removeOrderKeepsAll(h, orders, orderId) == orders

\* removeOrder that splices at index -1 when the id is absent and so drops the
\* last order of the collection.
removeOrderSplicesMissing(h, orders, orderId) ==
    LET i == FindIndexById(h, orders, orderId)
    IN IF i # 0 THEN RemoveAt(orders, i)
       ELSE SubSeq(orders, 1, Len(orders) - 1)

\* OrderBook.removeOrder: the collection without its first order of that id.
removeOrder(h, orders, orderId) ==
    LET i == FindIndexById(h, orders, orderId)
    IN IF i # 0 THEN RemoveAt(orders, i) ELSE orders

\* OrderBook.isValidMatch on a match record m whose orders live in heap h.
isValidMatch(h, m) ==
    LET b == h[m.buyOrder]
        s == h[m.sellOrder]
    IN IF b.type # BUY \/ s.type # SELL THEN FALSE
       ELSE IF m.matchedAmount <= 0 \/ m.matchedAmount > b.amount
               \/ m.matchedAmount > s.amount THEN FALSE
       ELSE IF m.price <= 0 \/ s.price > b.price THEN FALSE
       ELSE TRUE

\* OrderBook.isValidState: three array-shaped fields; nothing else is looked at.
\* A field of the argument is [isArray, items]: Array.isArray and, for an
\* array, its elements.
isValidState(state) ==
    IF ~state.buyOrders.isArray THEN FALSE
    ELSE IF ~state.sellOrders.isArray THEN FALSE
    ELSE IF ~state.matches.isArray THEN FALSE
    ELSE TRUE

\* findMatchingOrders that takes the orders of the incoming order's price only.
findMatchingOrdersAtPrice(h, buy, sell, order) ==
    LET orders == IF h[order].type = BUY THEN sell ELSE buy
        CanMatch(a) == canMatchWith(h[a], h[order]) /\ h[a].price = h[order].price
        found == SelectSeq(orders, CanMatch)
    IN [heap |-> h \o [i \in DOMAIN found |-> clone(h[found[i]])],
        clones |-> [i \in DOMAIN found |-> Len(h) + i]]

\* OrderBook.findMatchingOrders: the orders of the opposite collection that
\* can match, in collection order, each cloned into a new heap cell.
\* Returns the grown heap and the addresses of the clones.
findMatchingOrders(h, buy, sell, order) ==
    LET orders == IF h[order].type = BUY THEN sell ELSE buy
        CanMatch(a) == canMatchWith(h[a], h[order])
        found == SelectSeq(orders, CanMatch)
    IN [heap |-> h \o [i \in DOMAIN found |-> clone(h[found[i]])],
        clones |-> [i \in DOMAIN found |-> Len(h) + i]]

\* The sort of the candidates in addOrder (best price, oldest, smallest id).
sortMatchingOrders(h, type, matchingOrders) ==
    StableSort(h, IF type = BUY THEN "forBuy" ELSE "forSell", matchingOrders)

\* The try block of the matching loop for one committed match: fill the
\* candidate clone, drop the resting order of its id when the clone is
\* FILLED, fill the incoming order. An OrderError of updateAfterMatch is
\* caught and leaves the rest of the block undone.
applyMatch(w, order, matchingOrder, matchAmount) ==
    IF validateFilledAmount(w.heap[matchingOrder], matchAmount) # NoError
    THEN w
    ELSE LET filled == updateAfterMatch(w.heap[matchingOrder], matchAmount)
             h1 == [w.heap EXCEPT ![matchingOrder] = filled]
             type == h1[order].type
             w1 == [w EXCEPT
                      !.heap = h1,
                      !.sell = IF filled.status = FILLED /\ type = BUY
                               THEN removeOrder(h1, @, filled.id) ELSE @,
                      !.buy = IF filled.status = FILLED /\ type # BUY
                              THEN removeOrder(h1, @, filled.id) ELSE @]
         IN IF validateFilledAmount(h1[w.remainingOrder], matchAmount) # NoError
            THEN w1
            ELSE LET rem == updateAfterMatch(h1[w.remainingOrder], matchAmount)
                 IN [w1 EXCEPT
                       !.heap = [h1 EXCEPT ![w.remainingOrder] = rem],
                       !.remainingOrder = IF rem.status = FILLED THEN 0 ELSE @]

\* A match price taken from the incoming order.
matchPriceOfIncoming(incoming, matchingOrder) == incoming.price

\* The value of the match price in the loop: the candidate's price.
matchPriceOf(incoming, matchingOrder) == matchingOrder.price

\* The value of the match amount in the loop.
matchAmountOf(incoming, matchingOrder) == Min(incoming.amount, matchingOrder.amount)

\* The OrderMatch record the loop builds for the candidate: the incoming
\* order itself on its side, the candidate clone on the other.
OrderMatch(w, type, matchingOrder) ==
    [kind |-> "match",
     buyOrder |-> IF type = BUY THEN w.remainingOrder ELSE matchingOrder,
     sellOrder |-> IF type = SELL THEN w.remainingOrder ELSE matchingOrder,
     matchedAmount |-> matchAmountOf(w.heap[w.remainingOrder],
                                     w.heap[matchingOrder]),
     price |-> matchPriceOf(w.heap[w.remainingOrder], w.heap[matchingOrder])]

\* A commit that records the match in the history but not in the result.
commitMatchHistoryOnly(w, order, matchingOrder, match) ==
    LET ma == Len(w.heap) + 1
    IN applyMatch([w EXCEPT !.heap = Append(@, match),
                            !.matches = Append(@, ma)],
                  order, matchingOrder, match.matchedAmount)

\* A commit that puts the match at the front of the history.
commitMatchAtFront(w, order, matchingOrder, match) ==
    LET ma == Len(w.heap) + 1
    IN applyMatch([w EXCEPT !.heap = Append(@, match),
                            !.out = Append(@, ma),
                            !.matches = <<ma>> \o @],
                  order, matchingOrder, match.matchedAmount)

\* The two pushes of a valid match and the try block after them.
commitMatch(w, order, matchingOrder, match) ==
    LET ma == Len(w.heap) + 1
    IN applyMatch([w EXCEPT !.heap = Append(@, match),
                            !.out = Append(@, ma),
                            !.matches = Append(@, ma)],
                  order, matchingOrder, match.matchedAmount)

\* A loop that commits every pairing without isValidMatch, the two orders of
\* the record in each other's place.
RECURSIVE matchLoopUnvalidated(_, _, _)
matchLoopUnvalidated(w, order, matchingOrders) ==
    IF matchingOrders = <<>> THEN w
    ELSE IF w.remainingOrder = 0 \/ ~isActive(w.heap[w.remainingOrder]) THEN w
    ELSE LET matchingOrder == Head(matchingOrders)
             rest == Tail(matchingOrders)
             m == OrderMatch(w, w.heap[order].type, matchingOrder)
             w2 == commitMatch(w, order, matchingOrder,
                               [m EXCEPT !.buyOrder = m.sellOrder,
                                         !.sellOrder = m.buyOrder])
         IN IF w2.remainingOrder = 0 THEN w2
            ELSE matchLoopUnvalidated(w2, order, rest)

\* The for loop of addOrder over the sorted candidate clones. w holds the
\* heap, both collections, the history, the matches of this call and
\* remainingOrder (0 for null).
RECURSIVE matchLoop(_, _, _)
matchLoop(w, order, matchingOrders) ==
    IF matchingOrders = <<>> THEN w
    ELSE IF w.remainingOrder = 0 \/ ~isActive(w.heap[w.remainingOrder]) THEN w
    ELSE LET matchingOrder == Head(matchingOrders)
             rest == Tail(matchingOrders)
         IN IF ~isActive(w.heap[matchingOrder]) THEN matchLoop(w, order, rest)
            ELSE LET match == OrderMatch(w, w.heap[order].type, matchingOrder)
                 IN IF ~isValidMatch(w.heap, match)
                    THEN matchLoop(w, order, rest)
                    ELSE LET w2 == commitMatch(w, order, matchingOrder, match)
                         IN IF w2.remainingOrder = 0 THEN w2
                            ELSE matchLoop(w2, order, rest)

\* The end of addOrder, after the loop left the working state w: the
\* incoming order is pushed on its side if it is still active, both
\* collections are sorted, the result is returned.
finishAddOrder(w, o, order) ==
    LET rests == w.remainingOrder # 0 /\ isActive(w.heap[w.remainingOrder])
        buy1 == IF rests /\ o.type = BUY
                THEN sortBuyOrders(w.heap, Append(w.buy, w.remainingOrder))
                ELSE w.buy
        sell1 == IF rests /\ o.type # BUY
                 THEN sortSellOrders(w.heap, Append(w.sell, w.remainingOrder))
                 ELSE w.sell
    IN [heap |-> w.heap,
        buy |-> sortBuyOrders(w.heap, buy1),
        sell |-> sortSellOrders(w.heap, sell1),
        matches |-> w.matches,
        order |-> order,
        out |-> w.out,
        remainingOrder |-> w.remainingOrder]

\* The candidates found, sorted, and the loop run over them.
runMatching(found, buy, sell, matches, o, order) ==
    matchLoop([heap |-> found.heap, buy |-> buy, sell |-> sell,
               matches |-> matches, out |-> <<>>, remainingOrder |-> order],
              order,
              sortMatchingOrders(found.heap, o.type, found.clones))

\* OrderBook.addOrder after its three precondition checks, for the new
\* order object o: the book after the call and the returned result.
\* (The one-element sets name an intermediate value that is used many times.)
addOrder(h, buy, sell, matches, o) ==
    CHOOSE r \in
        {finishAddOrder(w, o, Len(h) + 1) :
            w \in {runMatching(found, buy, sell, matches, o, Len(h) + 1) :
                     found \in {findMatchingOrders(Append(h, o), buy, sell,
                                                   Len(h) + 1)}}} : TRUE

\* ------------------------------------------------------------------- state
VARIABLES
    heap,        \* the objects: a sequence of Order / OrderMatch records
    buyOrders,   \* OrderBook.buyOrders: addresses of orders
    sellOrders,  \* OrderBook.sellOrders: addresses of orders
    matches,     \* OrderBook.matches: addresses of match records
    calls,       \* accepted addOrder calls and caller writes so far
    last,        \* the last call: operation, argument, error code, result
    snap,        \* the value the last getState returned, while the caller
                 \* still holds it (dropped at the next book operation)
    node         \* the P2PService that owns the book: its role, its mutex,
                 \* the calls in flight, the requests made, the last reply

vars == <<calls, heap, buyOrders, sellOrders, matches, last, snap, node>>

\* A book that is used without a P2PService.
NoNode == [role |-> "none"]

NoSnap == [held |-> FALSE, buyOrders |-> <<>>, sellOrders |-> <<>>,
           matches |-> <<>>]

Result(op, arg, err, order, out, remainingOrder) ==
    [op |-> op, arg |-> arg, err |-> err, order |-> order, matches |-> out,
     remainingOrder |-> remainingOrder]

\* The addresses a sequence of match addresses leads to: each record and
\* the two orders it refers to.
RECURSIVE MatchRefs(_, _)
MatchRefs(h, ms) ==
    IF ms = <<>> THEN <<>>
    ELSE LET m == Head(ms)
         IN (IF h[m].kind = "match" THEN <<m, h[m].buyOrder, h[m].sellOrder>>
             ELSE <<m>>) \o MatchRefs(h, Tail(ms))

\* Garbage collection: the cells no reference of the book or of the caller
\* reaches are dropped and the others renumbered in the order they are
\* reached, so that a state does not depend on allocation order.
Reached(h, buy, sell, ms, l, sn) ==
    Dedup(buy \o sell \o MatchRefs(h, ms)
          \o (IF l.order = 0 THEN <<>> ELSE <<l.order>>)
          \o MatchRefs(h, l.matches)
          \o (IF l.remainingOrder = 0 THEN <<>> ELSE <<l.remainingOrder>>)
          \o sn.buyOrders \o sn.sellOrders \o MatchRefs(h, sn.matches))

Renumbered(roots, h, buy, sell, ms, l, sn) ==
    LET To(a) == IF a = 0 THEN 0 ELSE CHOOSE i \in DOMAIN roots : roots[i] = a
        ToAll(as) == [i \in DOMAIN as |-> To(as[i])]
        Cell(c) == IF c.kind = "match"
                   THEN [c EXCEPT !.buyOrder = To(@), !.sellOrder = To(@)]
                   ELSE c
    IN [heap |-> [i \in DOMAIN roots |-> Cell(h[roots[i]])],
        buy |-> ToAll(buy),
        sell |-> ToAll(sell),
        matches |-> ToAll(ms),
        last |-> [l EXCEPT !.order = To(@), !.matches = ToAll(@),
                           !.remainingOrder = To(@)],
        snap |-> [sn EXCEPT !.buyOrders = ToAll(@), !.sellOrders = ToAll(@),
                            !.matches = ToAll(@)]]

Collect(h, buy, sell, ms, l, sn) ==
    CHOOSE c \in {Renumbered(roots, h, buy, sell, ms, l, sn) :
                    roots \in {Reached(h, buy, sell, ms, l, sn)}} : TRUE

\* The book and the objects after a step, whatever the node does in it.
CommitBook(h, buy, sell, ms, l, sn) ==
    \E c \in {Collect(h, buy, sell, ms, l, sn)} :
       /\ calls' = IF \/ l.op = "addOrder" /\ l.err = NoError
                      \/ l.op = "callerMutation"
                   THEN calls + 1
                   ELSE calls
       /\ heap' = c.heap
       /\ buyOrders' = c.buy
       /\ sellOrders' = c.sell
       /\ matches' = c.matches
       /\ last' = c.last
       /\ snap' = c.snap

\* A step of the book alone.
Commit(h, buy, sell, ms, l, sn) ==
    /\ CommitBook(h, buy, sell, ms, l, sn)
    /\ node' = node

Init ==
    /\ heap = <<>>
    /\ calls = 0
    /\ buyOrders = <<>>
    /\ sellOrders = <<>>
    /\ matches = <<>>
    /\ last = Result("new", Null, NoError, 0, <<>>, 0)
    /\ snap = NoSnap
    /\ node = NoNode

\* ----------------------------------------------------------------- actions
\* The orders a caller constructs and submits.
OrderInputs ==
    [id : Ids, type : OrderType, price : Prices, amount : Amounts,
     clientId : {"client"}, originalAmount : {0}, timestamp : Times,
     status : {Null}]
    \cup
    [id : {1}, type : OrderType, price : {1}, amount : {1},
     clientId : {"client"}, originalAmount : {0}, timestamp : {1},
     status : {FILLED, CANCELLED}]

\* What `last` keeps of a submitted order: its id and the status given.
ArgOf(data) == [id |-> data.id, status |-> data.status]

\* OrderBook.addOrder(new Order(data))
AddOrder(data) ==
    /\ validateInputs(data) = NoError
    /\ calls < MaxCalls
    /\ LET o == NewOrder(data)
       IN IF ~isActive(o)
          THEN Commit(heap, buyOrders, sellOrders, matches,
                      Result("addOrder", ArgOf(data), "INVALID_ORDER_STATUS", 0, <<>>, 0),
                      NoSnap)
          ELSE IF findOrderById(heap, buyOrders, sellOrders, o.id) # 0
          THEN Commit(heap, buyOrders, sellOrders, matches,
                      Result("addOrder", ArgOf(data), "DUPLICATE_ORDER_ID", 0, <<>>, 0),
                      NoSnap)
          ELSE \E r \in {addOrder(heap, buyOrders, sellOrders, matches, o)} :
                  Commit(r.heap, r.buy, r.sell, r.matches,
                         Result("addOrder", ArgOf(data), NoError, r.order, r.out,
                                r.remainingOrder),
                         NoSnap)

\* OrderBook.cancelOrder(orderId) for a non-empty id: the objects and the
\* collections after the call, the error code, the returned order (0 for
\* undefined). The order found is taken out of its collection before
\* cancel() is tried on it.
cancelOrder(h, buy, sell, orderId) ==
    LET bi == FindIndexById(h, buy, orderId)
        si == IF bi # 0 THEN 0 ELSE FindIndexById(h, sell, orderId)
        order == IF bi # 0 THEN buy[bi]
                 ELSE IF si # 0 THEN sell[si] ELSE 0
        buy1 == removeOrder(h, buy, orderId)
        sell1 == IF bi # 0 THEN sell ELSE removeOrder(h, sell, orderId)
    IN IF order = 0
       THEN [heap |-> h, buy |-> buy1, sell |-> sell1, err |-> NoError,
             order |-> 0]
       ELSE IF h[order].status = FILLED
       THEN [heap |-> h, buy |-> buy1, sell |-> sell1, err |-> "CANCEL_ERROR",
             order |-> 0]
       ELSE [heap |-> [h EXCEPT ![order] = cancel(@)], buy |-> buy1,
             sell |-> sell1, err |-> NoError, order |-> order]

\* OrderBook.cancelOrder(orderId); orderId 0 is the empty string.
CancelOrder(orderId) ==
    IF orderId = 0
    THEN Commit(heap, buyOrders, sellOrders, matches,
                Result("cancelOrder", orderId, "MISSING_ORDER_ID", 0, <<>>, 0),
                NoSnap)
    ELSE \E r \in {cancelOrder(heap, buyOrders, sellOrders, orderId)} :
            Commit(r.heap, r.buy, r.sell, matches,
                   Result("cancelOrder", orderId, r.err, r.order, <<>>, 0),
                   NoSnap)

\* OrderBook.getState(): clones of the orders of both collections and a new
\* array holding the match records of the history themselves.
GetState ==
    /\ last.op # "getState"
    /\ LET nb == Len(buyOrders)
           ns == Len(sellOrders)
           h1 == heap \o [i \in 1..nb |-> clone(heap[buyOrders[i]])]
                      \o [i \in 1..ns |-> clone(heap[sellOrders[i]])]
       IN Commit(h1, buyOrders, sellOrders, matches,
                 Result("getState", Null, NoError, 0, <<>>, 0),
                 [held |-> TRUE,
                  buyOrders |-> [i \in 1..nb |-> Len(heap) + i],
                  sellOrders |-> [i \in 1..ns |-> Len(heap) + nb + i],
                  matches |-> matches])

\* The states handed to setState. Orders are Order objects (syncOrderbook
\* builds them with Order.fromObject); a field is [isArray, items].
SyncOrder(id, type, price, amount, originalAmount, status) ==
    NewOrder([id |-> id, type |-> type, price |-> price, amount |-> amount,
              clientId |-> "peer", originalAmount |-> originalAmount,
              timestamp |-> 1, status |-> status])

Arr(items) == [isArray |-> TRUE, items |-> items]
NotArr == [isArray |-> FALSE, items |-> <<>>]
PrimCell == [kind |-> "primitive"]

SyncBuys == Arr(<<SyncOrder(1, BUY, 1, 1, 0, Null),
                  SyncOrder(2, BUY, 2, 2, 0, Null)>>)
SyncSells == Arr(<<SyncOrder(2, SELL, 2, 1, 2, PARTIALLY_FILLED),
                   SyncOrder(1, SELL, 1, 0, 1, FILLED)>>)
SyncMatch == [kind |-> "match",
              buyOrder |-> SyncOrder(2, BUY, 1, 0, 1, FILLED),
              sellOrder |-> SyncOrder(1, SELL, 1, 0, 1, FILLED),
              matchedAmount |-> 1, price |-> 1]

StateInputs ==
    {[buyOrders |-> Arr(<<>>), sellOrders |-> Arr(<<>>), matches |-> Arr(<<>>)],
     [buyOrders |-> SyncBuys, sellOrders |-> Arr(<<>>), matches |-> Arr(<<SyncMatch>>)],
     [buyOrders |-> Arr(<<>>), sellOrders |-> SyncSells, matches |-> Arr(<<PrimCell>>)],
     [buyOrders |-> NotArr, sellOrders |-> SyncSells, matches |-> Arr(<<>>)],
     [buyOrders |-> SyncBuys, sellOrders |-> NotArr, matches |-> Arr(<<>>)],
     [buyOrders |-> SyncBuys, sellOrders |-> Arr(<<>>), matches |-> NotArr]}

\* What `last` keeps of a setState argument: the shape isValidState sees and
\* whether an element is a primitive.
ShapeOf(state) ==
    [buyOrders |-> state.buyOrders.isArray,
     sellOrders |-> state.sellOrders.isArray,
     matches |-> state.matches.isArray,
     primitive |-> \E i \in DOMAIN state.matches.items :
                      state.matches.items[i].kind = "primitive"]

\* The cells of the elements of state.matches, in order: a record is
\* followed by its two orders. n is the number of cells already in the heap.
RECURSIVE MatchCells(_, _)
MatchCells(items, n) ==
    IF items = <<>> THEN <<>>
    ELSE LET m == Head(items)
         IN IF m.kind = "match"
            THEN <<[m EXCEPT !.buyOrder = n + 2, !.sellOrder = n + 3],
                   m.buyOrder, m.sellOrder>> \o MatchCells(Tail(items), n + 3)
            ELSE <<m>> \o MatchCells(Tail(items), n + 1)

\* The addresses of the elements themselves among the cells of MatchCells.
RECURSIVE MatchAddrs(_, _)
MatchAddrs(items, n) ==
    IF items = <<>> THEN <<>>
    ELSE <<n + 1>> \o MatchAddrs(Tail(items),
                                 IF Head(items).kind = "match" THEN n + 3 ELSE n + 1)

\* setState that pushes the given state onto what the book holds.
setStateMerging(h, buy, sell, ms, state) ==
    IF ~isValidState(state)
    THEN [heap |-> h, buy |-> buy, sell |-> sell, matches |-> ms,
          err |-> "INVALID_STATE"]
    ELSE LET b == state.buyOrders.items
             sl == state.sellOrders.items
             h1 == h \o b \o sl
             h2 == h1 \o MatchCells(state.matches.items, Len(h1))
             buy1 == buy \o [i \in DOMAIN b |-> Len(h) + i]
             sell1 == sell \o [i \in DOMAIN sl |-> Len(h) + Len(b) + i]
         IN [heap |-> h2, buy |-> sortBuyOrders(h2, buy1),
             sell |-> sortSellOrders(h2, sell1),
             matches |-> ms \o MatchAddrs(state.matches.items, Len(h1)),
             err |-> NoError]

\* OrderBook.setState(state) on a book holding buy, sell and ms: the objects,
\* the collections and the history after the call, and the error code.
setState(h, buy, sell, ms, state) ==
    IF ~isValidState(state)
    THEN [heap |-> h, buy |-> buy, sell |-> sell, matches |-> ms,
          err |-> "INVALID_STATE"]
    ELSE LET b == state.buyOrders.items
             sl == state.sellOrders.items
             h1 == h \o b \o sl
             h2 == h1 \o MatchCells(state.matches.items, Len(h1))
             buy1 == [i \in DOMAIN b |-> Len(h) + i]
             sell1 == [i \in DOMAIN sl |-> Len(h) + Len(b) + i]
         IN [heap |-> h2, buy |-> sortBuyOrders(h2, buy1),
             sell |-> sortSellOrders(h2, sell1),
             matches |-> MatchAddrs(state.matches.items, Len(h1)),
             err |-> NoError]

\* OrderBook.setState(state)
SetState(state) ==
    \E r \in {setState(heap, buyOrders, sellOrders, matches, state)} :
       Commit(r.heap, r.buy, r.sell, r.matches,
              Result("setState", ShapeOf(state), r.err, 0, <<>>, 0), NoSnap)

\* ---- what a caller can do with the value getState returned
\* snapshot.buyOrders[i].cancel() or snapshot.sellOrders[i].cancel()
CallerCancelsReturnedOrder(side, i) ==
    /\ snap.held
    /\ calls < MaxCalls
    /\ i \in DOMAIN snap[side]
    /\ heap[snap[side][i]].status # FILLED
    /\ heap[snap[side][i]].version < MaxVersion
    /\ Commit([heap EXCEPT ![snap[side][i]] = cancel(@)],
              buyOrders, sellOrders, matches,
              Result("callerMutation", "order", NoError, 0, <<>>, 0), snap)

\* snapshot.matches[i].matchedAmount = amount
CallerWritesReturnedMatch(i, amount) ==
    /\ snap.held
    /\ calls < MaxCalls
    /\ i \in DOMAIN snap.matches
    /\ heap[snap.matches[i]].kind = "match"
    /\ heap[snap.matches[i]].matchedAmount # amount
    /\ Commit([heap EXCEPT ![snap.matches[i]].matchedAmount = amount],
              buyOrders, sellOrders, matches,
              Result("callerMutation", "match", NoError, 0, <<>>, 0), snap)

\* snapshot.matches[i].buyOrder.cancel() or snapshot.matches[i].sellOrder.cancel()
CallerCancelsOrderOfReturnedMatch(i, field) ==
    /\ snap.held
    /\ calls < MaxCalls
    /\ i \in DOMAIN snap.matches
    /\ heap[snap.matches[i]].kind = "match"
    /\ LET a == heap[snap.matches[i]][field]
       IN /\ heap[a].status # FILLED
          /\ heap[a].version < MaxVersion
          /\ Commit([heap EXCEPT ![a] = cancel(@)],
                    buyOrders, sellOrders, matches,
                    Result("callerMutation", "orderOfMatch", NoError, 0, <<>>, 0),
                    snap)

Next ==
    \/ \E data \in OrderInputs : AddOrder(data)
    \/ \E orderId \in Ids \cup {0} : CancelOrder(orderId)
    \/ GetState
    \/ \E state \in StateInputs : SetState(state)

\* A caller changing what getState returned.
CallerNext ==
    \/ \E side \in {"buyOrders", "sellOrders"} : \E i \in DOMAIN snap[side] :
          CallerCancelsReturnedOrder(side, i)
    \/ \E i \in DOMAIN snap.matches, amount \in Amounts :
          CallerWritesReturnedMatch(i, amount)
    \/ \E i \in DOMAIN snap.matches, field \in {"buyOrder", "sellOrder"} :
          CallerCancelsOrderOfReturnedMatch(i, field)

Spec == Init /\ [][Next]_vars

\* The book used by a caller that also changes the snapshots it was given.
SpecCaller == Init /\ [][Next \/ CallerNext]_vars

\* Orders that differ in price, age and id, for the order of matching: three
\* ids and two timestamps, so that two resting orders of one price can be
\* told apart by age and by id.
PriorityIds == {1, 2, 3}
PriorityTimes == {1, 2}

PriorityInputs ==
    [id : PriorityIds, type : OrderType, price : Prices, amount : Amounts,
     clientId : {"client"}, originalAmount : {0}, timestamp : PriorityTimes,
     status : {Null}]

NextPriority == \E data \in PriorityInputs : AddOrder(data)

\* A book that only receives orders.
SpecPriority == Init /\ [][NextPriority]_vars

\* Orders of one amount that differ in price, age and id, for the order of
\* the collections under every operation of the book.
SortedInputs ==
    [id : PriorityIds, type : OrderType, price : Prices, amount : {1},
     clientId : {"client"}, originalAmount : {0}, timestamp : PriorityTimes,
     status : {Null}]

\* The states handed to setState here: the ones that list orders in an
\* order that is not the order of the book.
SortedStates ==
    {state \in StateInputs :
        /\ isValidState(state)
        /\ Len(state.buyOrders.items) + Len(state.sellOrders.items) > 0}

NextSorted ==
    \/ \E data \in SortedInputs : AddOrder(data)
    \/ \E orderId \in PriorityIds : CancelOrder(orderId)
    \/ GetState
    \/ \E state \in SortedStates : SetState(state)

SpecSorted == Init /\ [][NextSorted]_vars

\* ------------------------------------------------------- one order on its own
\* An order built by the constructor with originalAmount and status left
\* out; it is heap[1] and nothing else exists.
DefaultOrders ==
    [id : {1}, type : OrderType, price : Prices, amount : 1..MaxAmount,
     clientId : {"client"}, originalAmount : {0}, timestamp : Times,
     status : {Null}]

InitOrder ==
    /\ \E data \in DefaultOrders : heap = <<NewOrder(data)>>
    /\ buyOrders = <<>>
    /\ sellOrders = <<>>
    /\ matches = <<>>
    /\ calls = 0
    /\ last = Result("new", Null, NoError, 1, <<>>, 0)
    /\ snap = NoSnap
    /\ node = NoNode

\* order.updateAfterMatch(filledAmount)
UpdateAfterMatch(filledAmount) ==
    /\ calls < MaxOrderCalls
    /\ LET err == validateFilledAmount(heap[1], filledAmount)
       IN /\ heap' = IF err = NoError
                     THEN <<updateAfterMatch(heap[1], filledAmount)>>
                     ELSE heap
          /\ last' = Result("updateAfterMatch", filledAmount, err, 1, <<>>, 0)
    /\ calls' = calls + 1
    /\ UNCHANGED <<buyOrders, sellOrders, matches, snap, node>>

\* order.cancel()
Cancel ==
    /\ calls < MaxOrderCalls
    /\ IF heap[1].status = FILLED
       THEN /\ heap' = heap
            /\ last' = Result("cancel", Null, "ORDER_FILLED", 1, <<>>, 0)
       ELSE /\ heap' = <<cancel(heap[1])>>
            /\ last' = Result("cancel", Null, NoError, 1, <<>>, 0)
    /\ calls' = calls + 1
    /\ UNCHANGED <<buyOrders, sellOrders, matches, snap, node>>

\* order.updateAfterMatch(NaN): validateFilledAmount throws on isNaN.
UpdateAfterMatchNaN ==
    /\ calls < MaxOrderCalls
    /\ heap' = heap
    /\ last' = Result("updateAfterMatchNaN", Null, "INVALID_FILLED_AMOUNT", 1,
                      <<>>, 0)
    /\ calls' = calls + 1
    /\ UNCHANGED <<buyOrders, sellOrders, matches, snap, node>>

NextOrder ==
    \/ \E filledAmount \in 0..(MaxAmount + 1) : UpdateAfterMatch(filledAmount)
    \/ UpdateAfterMatchNaN
    \/ Cancel

SpecOrder == InitOrder /\ [][NextOrder]_vars

\* ------------------------------------------------- two orders: canMatchWith
\* The orders canMatchWith is tried on, in every status.
MatchOrders ==
    [id : {1}, type : OrderType, price : Prices, amount : {1},
     clientId : {"client"}, originalAmount : {2}, timestamp : Times,
     status : {Null, PARTIALLY_FILLED, FILLED, CANCELLED}]

InitMatch ==
    /\ \E a \in MatchOrders, b \in MatchOrders :
          heap = <<NewOrder(a), NewOrder([b EXCEPT !.id = 2])>>
    /\ buyOrders = <<>>
    /\ sellOrders = <<>>
    /\ matches = <<>>
    /\ calls = 0
    /\ last = Result("new", Null, NoError, 0, <<>>, 0)
    /\ snap = NoSnap
    /\ node = NoNode

\* heap[this].canMatchWith(heap[other])
CanMatchWith(this, other) ==
    /\ last' = Result("canMatchWith",
                      [this |-> this, other |-> other,
                       result |-> canMatchWith(heap[this], heap[other])],
                      NoError, 0, <<>>, 0)
    /\ UNCHANGED <<heap, buyOrders, sellOrders, matches, calls, snap, node>>

NextMatch ==
    \E this \in {1, 2} : CanMatchWith(this, 3 - this)

SpecMatch == InitMatch /\ [][NextMatch]_vars

\* ------------------------------------------------- an order and its clone
\* The orders the constructor accepts, with and without originalAmount and
\* status.
CloneOrders ==
    {data \in [id : {1}, type : OrderType, price : {1}, amount : 0..2,
               clientId : {"client"}, originalAmount : {0, 3},
               timestamp : Times, status : OrderStatus \cup {Null}] :
        validateInputs(data) = NoError}

InitClone ==
    /\ \E data \in CloneOrders : heap = <<NewOrder(data)>>
    /\ buyOrders = <<>>
    /\ sellOrders = <<>>
    /\ matches = <<>>
    /\ calls = 0
    /\ last = Result("new", Null, NoError, 1, <<>>, 0)
    /\ snap = NoSnap
    /\ node = NoNode

\* heap[i].updateAfterMatch(filledAmount)
FillOne(i, filledAmount) ==
    /\ calls < MaxOrderCalls
    /\ i \in DOMAIN heap
    /\ LET err == validateFilledAmount(heap[i], filledAmount)
       IN /\ heap' = IF err = NoError
                     THEN [heap EXCEPT ![i] = updateAfterMatch(@, filledAmount)]
                     ELSE heap
          /\ last' = Result("updateAfterMatch", filledAmount, err, i, <<>>, 0)
    /\ calls' = calls + 1
    /\ UNCHANGED <<buyOrders, sellOrders, matches, snap, node>>

\* heap[i].cancel()
CancelOne(i) ==
    /\ calls < MaxOrderCalls
    /\ i \in DOMAIN heap
    /\ IF heap[i].status = FILLED
       THEN /\ heap' = heap
            /\ last' = Result("cancel", Null, "ORDER_FILLED", i, <<>>, 0)
       ELSE /\ heap' = [heap EXCEPT ![i] = cancel(@)]
            /\ last' = Result("cancel", Null, NoError, i, <<>>, 0)
    /\ calls' = calls + 1
    /\ UNCHANGED <<buyOrders, sellOrders, matches, snap, node>>

\* heap[1].clone(): the constructor validates the data and the new order
\* is heap[2].
Clone ==
    /\ Len(heap) = 1
    /\ LET err == validateInputs(cloneData(heap[1]))
       IN /\ heap' = IF err = NoError THEN <<heap[1], clone(heap[1])>>
                     ELSE heap
          /\ last' = Result("clone", Null, err, 1, <<>>, 0)
    /\ UNCHANGED <<buyOrders, sellOrders, matches, calls, snap, node>>

NextClone ==
    \/ \E i \in {1, 2}, filledAmount \in 1..2 : FillOne(i, filledAmount)
    \/ \E i \in {1, 2} : CancelOne(i)
    \/ Clone

SpecClone == InitClone /\ [][NextClone]_vars

\* ------------------------------------------------------------- P2PService
SUBMIT_ORDER == "submitOrder"
SYNC_ORDERBOOK == "syncOrderbook"
GET_ORDERBOOK == "getOrderbook"
ANNOUNCE_MATCH == "announceMatch"
CANCEL_ORDER == "cancelOrder"
ServiceAction ==
    {SUBMIT_ORDER, SYNC_ORDERBOOK, GET_ORDERBOOK, ANNOUNCE_MATCH, CANCEL_ORDER}

\* The submitOrder calls of a behaviour, by number.
SubmitCalls == 1..MaxSubmits

\* A call that was not made yet.
NoCall == [pc |-> "idle", data |-> Null, err |-> NoError, result |-> Null]

\* No handler.reply was made.
NoReply == [kind |-> "none", status |-> Null, reason |-> Null]

\* The node after construction and start() in the given role: the peer is a
\* PeerRPCClient in client role and a PeerRPCServer in server role.
NewNode(role) ==
    [role |-> role,
     holder |-> 0,                          \* orderMutex: the call holding it
     queue |-> <<>>,                        \* orderMutex: the calls waiting
     sub |-> [c \in SubmitCalls |-> NoCall], \* the submitOrder calls
     cancelCall |-> NoCall,                 \* the cancelOrder call
     sync |-> "idle",                       \* the syncOrderbook call
     requests |-> {},                       \* payloads given to requestWithTimeout
     reply |-> NoReply]                     \* handler.reply of the last request

\* Mutex.acquire that never waits.
mutexAcquireAtOnce(n, c) == [n EXCEPT !.holder = c, !.sub[c].pc = "acquired"]

\* orderMutex.acquire() by call c: the call holds the mutex if it is free
\* and waits in line otherwise.
mutexAcquire(n, c) ==
    IF n.holder = 0
    THEN [n EXCEPT !.holder = c, !.sub[c].pc = "acquired"]
    ELSE [n EXCEPT !.queue = Append(@, c), !.sub[c].pc = "waiting"]

\* A release that frees the mutex without looking at the calls in line.
mutexReleaseForgetsQueue(n) == [n EXCEPT !.holder = 0]

\* release(): the mutex goes to the first call in line, if any.
mutexRelease(n) ==
    IF n.queue = <<>> THEN [n EXCEPT !.holder = 0]
    ELSE [n EXCEPT !.holder = Head(n.queue), !.queue = Tail(n.queue),
                   !.sub[Head(n.queue)].pc = "acquired"]

\* The OrderSubmissionResult a call keeps in `result`, by value: the id of
\* the order, the number of matches, the id of remainingOrder (0 for null).
SubmissionResult(h, r) ==
    [order |-> h[r.order].id,
     matches |-> Len(r.out),
     remainingOrder |-> IF r.remainingOrder = 0 THEN 0
                        ELSE h[r.remainingOrder].id]

\* No error message.
NoMessage == <<>>

\* The message requestWithTimeout throws without a PeerRPCClient.
MsgNotInitialized ==
    <<"P", "2", "P", " ", "c", "l", "i", "e", "n", "t", " ", "n", "o", "t",
    " ", "i", "n", "i", "t", "i", "a", "l", "i", "z", "e", "d">>

\* A requestWithTimeout call that was not made.
NoRequest ==
    [pc |-> "idle", action |-> Null, retryCount |-> 0, attempts |-> 0,
     lastError |-> NoMessage, raised |-> NoMessage]

\* requestWithTimeout(payload) up to its first await: without a
\* PeerRPCClient it throws at once, otherwise the loop is entered with
\* retryCount 0 and the first attempt is made.
requestWithTimeout(role, action) ==
    IF role # "client"
    THEN [NoRequest EXCEPT !.pc = "raised", !.action = action,
                           !.raised = MsgNotInitialized]
    ELSE [NoRequest EXCEPT !.pc = "attempting", !.action = action]

\* The node after one of its methods called requestWithTimeout(payload),
\* for a node that keeps the call in `request`.
callRequest(n, action) ==
    IF "request" \in DOMAIN n
    THEN [n EXCEPT !.request = requestWithTimeout(n.role, action)]
    ELSE n

\* submitOrder that sends the order out before the book has accepted it.
afterLocalAddBroadcastsFirst(n, c, err, result, orderId) ==
    IF err # NoError
    THEN mutexRelease([n EXCEPT !.sub[c].pc = "raised", !.sub[c].err = err,
                                !.requests = @ \cup {[action |-> SUBMIT_ORDER,
                                                      id |-> orderId]}])
    ELSE [n EXCEPT !.sub[c].pc = "broadcasting", !.sub[c].result = result,
                   !.requests = @ \cup {[action |-> SUBMIT_ORDER,
                                         id |-> orderId]}]

\* submitOrder from the addOrder call to the await of requestWithTimeout:
\* an error of addOrder leaves through `finally` (release, raise); otherwise
\* the payload is handed to requestWithTimeout and the call waits.
afterLocalAdd(n, c, err, result, orderId) ==
    IF err # NoError
    THEN mutexRelease([n EXCEPT !.sub[c].pc = "raised", !.sub[c].err = err])
    ELSE callRequest([n EXCEPT !.sub[c].pc = "broadcasting",
                               !.sub[c].result = result,
                               !.requests = @ \cup {[action |-> SUBMIT_ORDER,
                                                     id |-> orderId]}],
                     SUBMIT_ORDER)

\* submitOrder that lets a failed broadcast reach the caller.
afterBroadcastRaises(n, c, ok) ==
    mutexRelease([n EXCEPT !.sub[c].pc = IF ok THEN "returned" ELSE "raised",
                           !.sub[c].err = IF ok THEN NoError
                                          ELSE "BROADCAST_FAILED"])

\* submitOrder after requestWithTimeout settled: a failure is caught and
\* logged, the result is returned, `finally` releases the mutex.
afterBroadcast(n, c, ok) ==
    mutexRelease([n EXCEPT !.sub[c].pc = "returned"])

\* The orders a node is given.
NodeOrders ==
    [id : Ids, type : OrderType, price : {1}, amount : Amounts,
     clientId : {"client"}, originalAmount : {0}, timestamp : Times,
     status : {Null}]
    \cup [id : {1}, type : {BUY}, price : {1}, amount : {1},
          clientId : {"client"}, originalAmount : {0}, timestamp : Times,
          status : {CANCELLED}]

InitNode ==
    /\ heap = <<>>
    /\ calls = 0
    /\ buyOrders = <<>>
    /\ sellOrders = <<>>
    /\ matches = <<>>
    /\ last = Result("new", Null, NoError, 0, <<>>, 0)
    /\ snap = NoSnap
    /\ \E role \in {"client", "server"} : node = NewNode(role)

\* submitOrder(new Order(data)), call c: up to the await of acquire().
SubmitOrder(c, data) ==
    /\ node.sub[c].pc = "idle"
    /\ IF c = 1 THEN TRUE ELSE node.sub[c - 1].pc # "idle"
    /\ validateInputs(data) = NoError
    /\ node' = mutexAcquire([node EXCEPT !.sub[c].data = data], c)
    /\ CommitBook(heap, buyOrders, sellOrders, matches,
                  Result("submitOrder", c, NoError, 0, <<>>, 0), NoSnap)

\* Call c holds the mutex: addOrder on the local book, then the broadcast
\* is started (or the error of addOrder leaves the call).
SubmitAddOrder(c) ==
    /\ node.sub[c].pc = "acquired"
    /\ LET data == node.sub[c].data
           o == NewOrder(data)
       IN IF ~isActive(o)
          THEN /\ node' = afterLocalAdd(node, c, "INVALID_ORDER_STATUS", Null, o.id)
               /\ CommitBook(heap, buyOrders, sellOrders, matches,
                             Result("addOrder", ArgOf(data),
                                    "INVALID_ORDER_STATUS", 0, <<>>, 0), NoSnap)
          ELSE IF findOrderById(heap, buyOrders, sellOrders, o.id) # 0
          THEN /\ node' = afterLocalAdd(node, c, "DUPLICATE_ORDER_ID", Null, o.id)
               /\ CommitBook(heap, buyOrders, sellOrders, matches,
                             Result("addOrder", ArgOf(data),
                                    "DUPLICATE_ORDER_ID", 0, <<>>, 0), NoSnap)
          ELSE \E r \in {addOrder(heap, buyOrders, sellOrders, matches, o)} :
                  /\ node' = afterLocalAdd(node, c, NoError,
                                           SubmissionResult(r.heap, r), o.id)
                  /\ CommitBook(r.heap, r.buy, r.sell, r.matches,
                                Result("addOrder", ArgOf(data), NoError, r.order,
                                       r.out, r.remainingOrder), NoSnap)

\* requestWithTimeout of call c settled: ok is whether it resolved. In
\* server role it rejects at once ("P2P client not initialized").
SubmitReturn(c, ok) ==
    /\ node.sub[c].pc = "broadcasting"
    /\ ok => node.role = "client"
    /\ node' = afterBroadcast(node, c, ok)
    /\ CommitBook(heap, buyOrders, sellOrders, matches,
                  Result("submitOrderReturn", c, NoError, 0, <<>>, 0), NoSnap)

\* The undefined that cancelOrder returns for an id the book does not hold.
NoOrder == [kind |-> "undefined"]

\* cancelOrder that broadcasts whether or not an order was cancelled.
afterLocalCancelBroadcastsAlways(n, err, cancelled, orderId) ==
    IF err # NoError
    THEN [n EXCEPT !.cancelCall = [pc |-> "raised", data |-> orderId,
                                   err |-> err, result |-> Null]]
    ELSE [n EXCEPT !.cancelCall = [pc |-> "broadcasting", data |-> orderId,
                                   err |-> NoError, result |-> cancelled],
                   !.requests = @ \cup {[action |-> CANCEL_ORDER,
                                         id |-> orderId]}]

\* P2PService.cancelOrder from the local cancelOrder to the await of
\* requestWithTimeout. cancelled is the order returned by the book (Null
\* for a raised call, NoOrder for undefined), err the error the book raised.
afterLocalCancel(n, err, cancelled, orderId) ==
    IF err # NoError
    THEN [n EXCEPT !.cancelCall = [pc |-> "raised", data |-> orderId,
                                   err |-> err, result |-> Null]]
    ELSE IF cancelled.kind = "order" /\ n.role = "client"
    THEN [n EXCEPT !.cancelCall = [pc |-> "broadcasting", data |-> orderId,
                                   err |-> NoError, result |-> cancelled],
                   !.requests = @ \cup {[action |-> CANCEL_ORDER,
                                         id |-> orderId]}]
    ELSE [n EXCEPT !.cancelCall = [pc |-> "returned", data |-> orderId,
                                   err |-> NoError, result |-> cancelled]]

\* P2PService.cancelOrder after requestWithTimeout settled.
afterCancelBroadcast(n, ok) ==
    IF ok THEN [n EXCEPT !.cancelCall.pc = "returned"]
    ELSE [n EXCEPT !.cancelCall.pc = "raised",
                   !.cancelCall.err = "CANCEL_FAILED"]

\* P2PService.cancelOrder(orderId) up to its return or its await; a new
\* call is made when the one before is over.
NodeCancelOrder(orderId) ==
    /\ node.cancelCall.pc # "broadcasting"
    /\ IF orderId = 0
       THEN /\ node' = afterLocalCancel(node, "MISSING_ORDER_ID", NoOrder,
                                        orderId)
            /\ CommitBook(heap, buyOrders, sellOrders, matches,
                          Result("cancelOrder", orderId, "MISSING_ORDER_ID", 0,
                                 <<>>, 0), NoSnap)
       ELSE \E r \in {cancelOrder(heap, buyOrders, sellOrders, orderId)} :
               /\ node' = afterLocalCancel(node, r.err,
                                           IF r.order = 0 THEN NoOrder
                                           ELSE r.heap[r.order], orderId)
               /\ CommitBook(r.heap, r.buy, r.sell, matches,
                             Result("cancelOrder", orderId, r.err, r.order,
                                    <<>>, 0), NoSnap)

\* requestWithTimeout of the cancelOrder call settled.
NodeCancelReturn(ok) ==
    /\ node.cancelCall.pc = "broadcasting"
    /\ node' = afterCancelBroadcast(node, ok)
    /\ CommitBook(heap, buyOrders, sellOrders, matches,
                  Result("cancelOrderReturn", ok, NoError, 0, <<>>, 0), NoSnap)

NextNode ==
    \/ \E orderId \in Ids \cup {0} : NodeCancelOrder(orderId)
    \/ \E ok \in BOOLEAN : NodeCancelReturn(ok)
    \/ \E c \in SubmitCalls, data \in NodeOrders : SubmitOrder(c, data)
    \/ \E c \in SubmitCalls : SubmitAddOrder(c)
    \/ \E c \in SubmitCalls, ok \in BOOLEAN : SubmitReturn(c, ok)

\* A started node and its book.
SpecNode == InitNode /\ [][NextNode]_vars

\* ------------------------------------------- P2PService: inbound requests
\* options.clientId of this node, and the clientId of another node.
SelfId == "self"
OtherId == "other"

\* handler.reply(new Error(message))
ErrorReply(message) == [kind |-> "error", status |-> Null, reason |-> message]

\* handler.reply(null, {status: 'skipped', reason: 'own request'})
SkippedReply == [kind |-> "response", status |-> "skipped",
                 reason |-> "own request"]

\* The payloads of inbound requests: a value that is no object, and objects
\* whose clientId is this node's, another node's or missing (Null), whose
\* action is a ServiceAction, another string or missing (Null), and whose
\* data is an object or missing (Null).
RequestInputs ==
    {[kind |-> "primitive", clientId |-> Null, action |-> Null, data |-> Null]}
    \cup [kind : {"object"}, clientId : {SelfId, OtherId, Null},
          action : ServiceAction \cup {"bogus", Null}, data : {"object", Null}]

\* isValidRPCPayload that takes any string for an action.
isValidRPCPayloadAnyAction(value) ==
    /\ value.kind = "object"
    /\ value.clientId # Null
    /\ value.action # Null
    /\ value.data = "object"

\* P2PService.isValidRPCPayload(value)
isValidRPCPayload(value) ==
    /\ value.kind = "object"
    /\ value.clientId # Null
    /\ value.action # Null
    /\ value.action \in ServiceAction
    /\ value.data = "object"

\* P2PService.handleRequest(rid, key, rawPayload, handler): the reply the
\* handler was given when the call is over. After the three checks the
\* method ends: no other statement follows them.
handleRequest(rawPayload) ==
    IF rawPayload.kind # "object" THEN ErrorReply("Invalid payload format")
    ELSE IF ~isValidRPCPayload(rawPayload)
    THEN ErrorReply("Invalid RPC payload format")
    ELSE IF rawPayload.clientId = SelfId THEN SkippedReply
    ELSE NoReply

\* A request arrives: the 'request' callback of startServer, which is
\* registered in server role only, runs handleRequest.
HandleRequest(rawPayload) ==
    /\ node.role = "server"
    /\ node' = [node EXCEPT !.reply = handleRequest(rawPayload)]
    /\ CommitBook(heap, buyOrders, sellOrders, matches,
                  Result("handleRequest", rawPayload, NoError, 0, <<>>, 0),
                  NoSnap)

\* ------------------------------------------------ P2PService: syncOrderbook
\* An order as it comes in a reply: an object with the keys of `has` (a key
\* that is absent reads as 0 or Null), or a value that is no object.
OrderKeys ==
    {"id", "type", "price", "amount", "clientId", "originalAmount",
     "timestamp", "status"}

WireOrder(id, type, price, amount, originalAmount, status, has) ==
    [kind |-> "object", has |-> has, id |-> id, type |-> type,
     price |-> price, amount |-> amount, clientId |-> "peer",
     originalAmount |-> originalAmount, timestamp |-> 1, status |-> status]

\* Order.isValidOrderData(data), for numeric price and amounts.
isValidOrderData(data) ==
    IF data.kind # "object" THEN FALSE
    ELSE IF "type" \notin data.has \/ "clientId" \notin data.has THEN FALSE
    ELSE IF data.type \notin OrderType THEN FALSE
    ELSE IF data.status = FILLED
            /\ \/ "amount" \notin data.has
               \/ data.amount < 0
               \/ "originalAmount" \notin data.has
               \/ data.originalAmount <= 0
    THEN FALSE
    ELSE IF data.status # FILLED
            /\ ("amount" \notin data.has \/ data.amount <= 0)
    THEN FALSE
    ELSE IF "price" \notin data.has \/ data.price <= 0 THEN FALSE
    ELSE IF "status" \in data.has /\ data.status \notin OrderStatus THEN FALSE
    ELSE TRUE

\* Order.fromObject(data): the error code and the order built. The replies
\* modelled carry an id and a timestamp (without them the order gets a new
\* uuid and the current time).
fromObject(data) ==
    IF ~isValidOrderData(data)
    THEN [err |-> "INVALID_ORDER_DATA", order |-> NoOrder]
    ELSE LET orderData == [id |-> data.id, type |-> data.type,
                           price |-> data.price, amount |-> data.amount,
                           clientId |-> data.clientId,
                           originalAmount |-> data.originalAmount,
                           timestamp |-> data.timestamp,
                           status |-> data.status]
         IN IF data.status = FILLED /\ data.amount = 0
               /\ data.originalAmount = 0
            THEN [err |-> "INVALID_FILLED_ORDER", order |-> NoOrder]
            ELSE IF validateInputs(orderData) # NoError
            THEN [err |-> validateInputs(orderData), order |-> NoOrder]
            ELSE [err |-> NoError, order |-> NewOrder(orderData)]

\* One step of the map of safelyMapOrders followed by its filter: the order
\* built from the entry, or nothing.
safelyMapOrder(orderData) ==
    IF orderData.kind # "object" THEN <<>>
    ELSE IF /\ orderData.status = FILLED
            /\ "amount" \in orderData.has /\ orderData.amount = 0
            /\ ~(orderData.originalAmount > 0)
    THEN <<>>
    ELSE IF fromObject(orderData).err # NoError THEN <<>>
    ELSE <<fromObject(orderData).order>>

RECURSIVE safelyMapEach(_)
safelyMapEach(items) ==
    IF items = <<>> THEN <<>>
    ELSE safelyMapOrder(Head(items)) \o safelyMapEach(Tail(items))

\* P2PService.safelyMapOrders(orders); orders is [isArray, items].
safelyMapOrders(orders) ==
    IF ~orders.isArray THEN <<>> ELSE safelyMapEach(orders.items)

\* A match as it comes in a reply: an object with the keys of `has`, whose
\* buyOrder and sellOrder are orders as they come in a reply.
MatchKeys == {"id", "buyOrder", "sellOrder", "matchedAmount", "price"}

WireMatch(buyOrder, sellOrder, matchedAmount, price, has) ==
    [kind |-> "object", has |-> has, buyOrder |-> buyOrder,
     sellOrder |-> sellOrder, matchedAmount |-> matchedAmount,
     price |-> price]

\* The callback syncOrderbook maps over response.state.matches, followed by
\* its filter: the OrderMatch built from the entry, or nothing.
mapMatch(matchData) ==
    IF matchData.kind # "object" THEN <<>>
    ELSE IF \/ "buyOrder" \notin matchData.has
            \/ "sellOrder" \notin matchData.has
            \/ matchData.buyOrder.kind # "object"
            \/ matchData.sellOrder.kind # "object"
    THEN <<>>
    ELSE IF \/ fromObject(matchData.buyOrder).err # NoError
            \/ fromObject(matchData.sellOrder).err # NoError
    THEN <<>>
    ELSE <<[kind |-> "match",
            buyOrder |-> fromObject(matchData.buyOrder).order,
            sellOrder |-> fromObject(matchData.sellOrder).order,
            matchedAmount |-> matchData.matchedAmount,
            price |-> matchData.price]>>

RECURSIVE mapMatches(_)
mapMatches(items) ==
    IF items = <<>> THEN <<>>
    ELSE mapMatch(Head(items)) \o mapMatches(Tail(items))

\* P2PService.isValidState that does not look at the three fields.
P2PService_isValidStateOfAnyShape(state) == state.kind = "object"

\* P2PService.isValidState(state): an object with three arrays, whose order
\* entries are objects and whose match entries are objects with id,
\* buyOrder, sellOrder, matchedAmount and price.
P2PService_isValidState(state) ==
    IF state.kind # "object" THEN FALSE
    ELSE IF \/ ~state.buyOrders.isArray
            \/ ~state.sellOrders.isArray
            \/ ~state.matches.isArray
    THEN FALSE
    ELSE /\ \A i \in DOMAIN state.buyOrders.items :
              state.buyOrders.items[i].kind = "object"
         /\ \A i \in DOMAIN state.sellOrders.items :
              state.sellOrders.items[i].kind = "object"
         /\ \A i \in DOMAIN state.matches.items :
              /\ state.matches.items[i].kind = "object"
              /\ MatchKeys \subseteq state.matches.items[i].has

\* syncOrderbook after requestWithTimeout settled, on a book holding buy,
\* sell and ms. response.ok is whether the request resolved; hasState is
\* whether response.state is there.
syncOrderbook(h, buy, sell, ms, response) ==
    LET same == [heap |-> h, buy |-> buy, sell |-> sell, matches |-> ms]
    IN IF ~response.ok
       THEN same @@ [sync |-> "raised", err |-> "REQUEST_FAILED"]
       ELSE IF response.status # "success" \/ ~response.hasState
       THEN same @@ [sync |-> "returned", err |-> NoError]
       ELSE IF ~P2PService_isValidState(response.state)
       THEN same @@ [sync |-> "raised", err |-> "INVALID_STATE_FORMAT"]
       ELSE LET state ==
                  [buyOrders |-> Arr(safelyMapOrders(response.state.buyOrders)),
                   sellOrders |-> Arr(safelyMapOrders(response.state.sellOrders)),
                   matches |-> Arr(mapMatches(response.state.matches.items))]
                r == setState(h, buy, sell, ms, state)
            IN IF r.err # NoError
               THEN same @@ [sync |-> "raised", err |-> r.err]
               ELSE [heap |-> r.heap, buy |-> r.buy, sell |-> r.sell,
                     matches |-> r.matches, sync |-> "applied",
                     err |-> NoError]

\* The replies to GET_ORDERBOOK.
WireState(buy, sell, ms) ==
    [kind |-> "object", buyOrders |-> buy, sellOrders |-> sell,
     matches |-> ms]

WireBuy1 == WireOrder(1, BUY, 1, 1, 1, OPEN, OrderKeys)
WireBuy2 == WireOrder(2, BUY, 2, 1, 2, PARTIALLY_FILLED, OrderKeys)
WireSell == WireOrder(2, SELL, 3, 2, 2, OPEN, OrderKeys)
WireFilledBuy == WireOrder(1, BUY, 1, 0, 1, FILLED, OrderKeys)
WireFilledSell == WireOrder(2, SELL, 1, 0, 1, FILLED, OrderKeys)
WireNoPrice == WireOrder(1, BUY, 0, 1, 0, Null, OrderKeys \ {"price", "originalAmount", "status"})
WireFilledNoOriginal == WireOrder(1, SELL, 1, 0, 0, FILLED, OrderKeys \ {"originalAmount"})
WireGoodMatch == WireMatch(WireFilledBuy, WireFilledSell, 1, 1, MatchKeys)
WireMatchOfBadOrder == WireMatch(WireNoPrice, WireFilledSell, 1, 1, MatchKeys)
WireMatchNoId == WireMatch(WireFilledBuy, WireFilledSell, 1, 1, MatchKeys \ {"id"})

Response(ok, status, hasState, state) ==
    [ok |-> ok, status |-> status, hasState |-> hasState, state |-> state]

GoodState == WireState(Arr(<<WireBuy1, WireBuy2>>), Arr(<<WireSell>>),
                       Arr(<<WireGoodMatch>>))

SyncReplies ==
    {Response(FALSE, Null, FALSE, [kind |-> "primitive"]),
     Response(TRUE, "error", TRUE, GoodState),
     Response(TRUE, "success", FALSE, [kind |-> "primitive"]),
     Response(TRUE, "success", TRUE, [kind |-> "primitive"]),
     Response(TRUE, "success", TRUE,
              WireState(NotArr, Arr(<<WireSell>>), Arr(<<>>))),
     Response(TRUE, "success", TRUE,
              WireState(Arr(<<WireBuy1>>), Arr(<<WireSell>>), NotArr)),
     Response(TRUE, "success", TRUE, GoodState),
     Response(TRUE, "success", TRUE,
              WireState(Arr(<<>>), Arr(<<>>), Arr(<<>>))),
     Response(TRUE, "success", TRUE,
              WireState(Arr(<<WireNoPrice, WireBuy2>>),
                        Arr(<<WireFilledNoOriginal, WireSell>>),
                        Arr(<<WireMatchOfBadOrder, WireGoodMatch>>))),
     Response(TRUE, "success", TRUE,
              WireState(Arr(<<WireBuy1, PrimCell>>), Arr(<<WireSell>>),
                        Arr(<<>>))),
     Response(TRUE, "success", TRUE,
              WireState(Arr(<<WireBuy1>>), Arr(<<>>),
                        Arr(<<WireMatchNoId, WireGoodMatch>>)))}

\* A sync that starts only while no submission holds the mutex.
SyncStartInSection ==
    /\ node.role = "client"
    /\ node.sync # "requesting"
    /\ node.holder = 0
    /\ node' = [node EXCEPT !.sync = "requesting",
                            !.requests = @ \cup {[action |-> GET_ORDERBOOK,
                                                  id |-> 0]}]
    /\ CommitBook(heap, buyOrders, sellOrders, matches,
                  Result("syncOrderbookStart", Null, NoError, 0, <<>>, 0),
                  NoSnap)

\* syncOrderbook() up to the await of requestWithTimeout; it is called in
\* client role only (startClient), one call at a time here.
SyncStart ==
    /\ node.role = "client"
    /\ node.sync # "requesting"
    /\ node' = [node EXCEPT !.sync = "requesting",
                            !.requests = @ \cup {[action |-> GET_ORDERBOOK,
                                                  id |-> 0]}]
    /\ CommitBook(heap, buyOrders, sellOrders, matches,
                  Result("syncOrderbookStart", Null, NoError, 0, <<>>, 0),
                  NoSnap)

\* requestWithTimeout of syncOrderbook settled with the response: the rest
\* of syncOrderbook.
SyncReply(response) ==
    /\ node.sync = "requesting"
    /\ \E r \in {syncOrderbook(heap, buyOrders, sellOrders, matches,
                                response)} :
          /\ node' = [node EXCEPT !.sync = r.sync]
          /\ CommitBook(r.heap, r.buy, r.sell, r.matches,
                        Result("syncOrderbook", response, r.err, 0, <<>>, 0),
                        NoSnap)

\* The application fills the book of the node; requests and replies arrive.
NextRpc ==
    \/ \E data \in NodeOrders : AddOrder(data)
    \/ \E rawPayload \in RequestInputs : HandleRequest(rawPayload)
    \/ SyncStart
    \/ \E response \in SyncReplies : SyncReply(response)

SpecRpc == InitNode /\ [][NextRpc]_vars

\* ------------------------- P2PService: submitOrder beside cancelOrder and sync
\* The orders submitted while cancellations and periodic syncs go on.
RaceOrders ==
    [id : Ids, type : OrderType, price : {1}, amount : {1},
     clientId : {"client"}, originalAmount : {0}, timestamp : Times,
     status : {Null}]

\* The replies to the periodic sync: no reply, and the book of a peer that
\* holds nothing.
RaceReplies ==
    {Response(FALSE, Null, FALSE, [kind |-> "primitive"]),
     Response(TRUE, "success", TRUE,
              WireState(Arr(<<>>), Arr(<<>>), Arr(<<>>)))}

InitRace ==
    /\ heap = <<>>
    /\ calls = 0
    /\ buyOrders = <<>>
    /\ sellOrders = <<>>
    /\ matches = <<>>
    /\ last = Result("new", Null, NoError, 0, <<>>, 0)
    /\ snap = NoSnap
    /\ node = NewNode("client")

NextRace ==
    \/ \E c \in SubmitCalls, data \in RaceOrders : SubmitOrder(c, data)
    \/ \E c \in SubmitCalls : SubmitAddOrder(c)
    \/ \E c \in SubmitCalls, ok \in BOOLEAN : SubmitReturn(c, ok)
    \/ \E orderId \in Ids : NodeCancelOrder(orderId)
    \/ \E ok \in BOOLEAN : NodeCancelReturn(ok)
    \/ SyncStart
    \/ \E response \in RaceReplies : SyncReply(response)

\* A client node whose application submits and cancels while the periodic
\* sync runs.
SpecRace == InitRace /\ [][NextRace]_vars

\* ----------------------------- P2PService: what a sync puts into the book
\* The replies of a peer: a book of one buy and one sell order, and a state
\* whose buyOrders lists a FILLED order and whose sellOrders lists a BUY
\* order.
PeerReplies ==
    {Response(TRUE, "success", TRUE,
              WireState(Arr(<<WireBuy1>>), Arr(<<WireSell>>), Arr(<<>>))),
     Response(TRUE, "success", TRUE,
              WireState(Arr(<<WireFilledBuy>>), Arr(<<WireBuy2>>), Arr(<<>>)))}

NextPeer ==
    \/ \E data \in NodeOrders : AddOrder(data)
    \/ \E orderId \in Ids : CancelOrder(orderId)
    \/ SyncStart
    \/ \E response \in PeerReplies : SyncReply(response)

\* A client node whose book is filled by the application and by syncs.
SpecPeer == InitRace /\ [][NextPeer]_vars

\* ---------------------------------------------------- Order.fromObject alone
\* The key/value maps handed to fromObject: every key is there or not, a
\* key that is not there reads as 0 or Null; type, status, price, amounts
\* and clientId take valid and invalid values.
ParseInputs ==
    {data \in [kind : {"object"},
               has : {OrderKeys \ {k} : k \in OrderKeys} \cup {OrderKeys},
               id : {1}, type : OrderType \cup {"bogus", Null},
               price : {0, 1}, amount : {0, 1},
               clientId : {"peer", "", Null}, originalAmount : {0, 1},
               timestamp : {1}, status : {OPEN, FILLED, "bogus", Null}] :
        /\ {"id", "timestamp"} \subseteq data.has
        /\ "type" \in data.has <=> data.type # Null
        /\ "clientId" \in data.has <=> data.clientId # Null
        /\ "status" \in data.has <=> data.status # Null
        /\ "price" \notin data.has => data.price = 0
        /\ "amount" \notin data.has => data.amount = 0
        /\ "originalAmount" \notin data.has => data.originalAmount = 0}

InitParse ==
    /\ heap = <<>>
    /\ buyOrders = <<>>
    /\ sellOrders = <<>>
    /\ matches = <<>>
    /\ calls = 0
    /\ last = Result("new", Null, NoError, 0, <<>>, 0)
    /\ snap = NoSnap
    /\ node = NoNode

\* Order.fromObject(data): the order built is heap[1].
FromObject(data) ==
    /\ \E r \in {fromObject(data)} :
          /\ heap' = IF r.err = NoError THEN <<r.order>> ELSE <<>>
          /\ last' = Result("fromObject", data, r.err,
                            IF r.err = NoError THEN 1 ELSE 0, <<>>, 0)
    /\ UNCHANGED <<buyOrders, sellOrders, matches, calls, snap, node>>

NextParse == \E data \in ParseInputs : FromObject(data)

SpecParse == InitParse /\ [][NextParse]_vars

\* ------------------------------------------- new Order(data) beside a book
\* The OrderData a caller hands to the constructor: valid and invalid prices,
\* amounts and client ids, status given or not, originalAmount given or not.
ConstructInputs ==
    [id : {2}, type : {BUY}, price : {-1, 0, 1}, amount : {-1, 0, 2},
     clientId : {"client", "", " ", " \t ", " c "}, originalAmount : {0, 3},
     timestamp : {1}, status : {Null, FILLED}]

\* The orders submitted to the book beside the constructions.
ConstructOrders ==
    [id : {1}, type : OrderType, price : {1}, amount : Amounts,
     clientId : {"client"}, originalAmount : {0}, timestamp : Times,
     status : {Null}]

\* new Order(data): the order built becomes an object the caller holds
\* (last.order); a throw of validateInputs builds nothing.
Construct(data) ==
    \E err \in {validateInputs(data)} :
       IF err # NoError
       THEN Commit(heap, buyOrders, sellOrders, matches,
                   Result("newOrder", data, err, 0, <<>>, 0), NoSnap)
       ELSE Commit(Append(heap, NewOrder(data)), buyOrders, sellOrders, matches,
                   Result("newOrder", data, NoError, Len(heap) + 1, <<>>, 0),
                   NoSnap)

\* new Order(data) with NaN as price or as amount (the other fields valid):
\* isNaN(data.price) is tested first, isNaN(data.amount) after the price.
ConstructNaN(field) ==
    /\ field \in {"price", "amount"}
    /\ Commit(heap, buyOrders, sellOrders, matches,
              Result("newOrderNaN", field,
                     IF field = "price" THEN "INVALID_PRICE"
                     ELSE "INVALID_AMOUNT",
                     0, <<>>, 0),
              NoSnap)

NextConstruct ==
    \/ \E data \in ConstructOrders : AddOrder(data)
    \/ \E data \in ConstructInputs : Construct(data)
    \/ \E field \in {"price", "amount"} : ConstructNaN(field)

SpecConstruct == Init /\ [][NextConstruct]_vars

\* ------------------------------------------------ a book of orders with new ids
\* Orders built without an id get a new uuid each (`data.id || uuidv4()`):
\* an id no order had before, which may compare (localeCompare) either way
\* with the ids handed out earlier. uuids holds the ids handed out.
FreshIds == 1..MaxCalls

FreshInputs ==
    [id : FreshIds, type : OrderType, price : Prices, amount : Amounts,
     clientId : {"client"}, originalAmount : {0}, timestamp : Times,
     status : {Null}]

InitFresh ==
    /\ heap = <<>>
    /\ calls = 0
    /\ buyOrders = <<>>
    /\ sellOrders = <<>>
    /\ matches = <<>>
    /\ last = Result("new", Null, NoError, 0, <<>>, 0)
    /\ snap = NoSnap
    /\ node = [role |-> "none", uuids |-> {}]

\* addOrder(new Order(data)) for data without an id.
AddFreshOrder(data) ==
    /\ data.id \notin node.uuids
    /\ validateInputs(data) = NoError
    /\ calls < MaxCalls
    /\ node' = [node EXCEPT !.uuids = @ \cup {data.id}]
    /\ LET o == NewOrder(data)
       IN IF ~isActive(o)
          THEN CommitBook(heap, buyOrders, sellOrders, matches,
                          Result("addOrder", ArgOf(data),
                                 "INVALID_ORDER_STATUS", 0, <<>>, 0), NoSnap)
          ELSE IF findOrderById(heap, buyOrders, sellOrders, o.id) # 0
          THEN CommitBook(heap, buyOrders, sellOrders, matches,
                          Result("addOrder", ArgOf(data),
                                 "DUPLICATE_ORDER_ID", 0, <<>>, 0), NoSnap)
          ELSE \E r \in {addOrder(heap, buyOrders, sellOrders, matches, o)} :
                  CommitBook(r.heap, r.buy, r.sell, r.matches,
                             Result("addOrder", ArgOf(data), NoError, r.order,
                                    r.out, r.remainingOrder), NoSnap)

\* cancelOrder of an id handed out before.
CancelFreshOrder(orderId) ==
    /\ orderId \in node.uuids
    /\ CancelOrder(orderId)

NextFresh ==
    \/ \E data \in FreshInputs : AddFreshOrder(data)
    \/ \E orderId \in FreshIds : CancelFreshOrder(orderId)

SpecFresh == InitFresh /\ [][NextFresh]_vars

\* ------------------------------------------- P2PService: requestWithTimeout
\* Error messages are sequences of characters, so that String.includes is
\* computed on them.
RECURSIVE startsWith(_, _)
startsWith(message, searchString) ==
    IF searchString = <<>> THEN TRUE
    ELSE IF message = <<>> THEN FALSE
    ELSE /\ Head(message) = Head(searchString)
         /\ startsWith(Tail(message), Tail(searchString))

\* String.prototype.includes
RECURSIVE includes(_, _)
includes(message, searchString) ==
    IF startsWith(message, searchString) THEN TRUE
    ELSE IF message = <<>> THEN FALSE
    ELSE includes(Tail(message), searchString)

Invalid ==
    <<"I", "n", "v", "a", "l", "i", "d">>
INVALID ==
    <<"I", "N", "V", "A", "L", "I", "D">>

\* The messages of the errors an attempt can fail with: the timer of
\* requestWithTimeout, a response that is no object, and errors of the
\* transport or of the peer.
MsgTimeout ==
    <<"R", "e", "q", "u", "e", "s", "t", " ", "t", "i", "m", "e", "o", "u",
    "t", " ", "a", "f", "t", "e", "r", " ", "1", "0", "0", "0", "0", "m",
    "s">>

MsgInvalidResponse ==
    <<"I", "n", "v", "a", "l", "i", "d", " ", "r", "e", "s", "p", "o", "n",
    "s", "e", " ", "f", "o", "r", "m", "a", "t">>

MsgLookupEmpty ==
    <<"E", "R", "R", "_", "G", "R", "A", "P", "E", "_", "L", "O", "O", "K",
    "U", "P", "_", "E", "M", "P", "T", "Y">>

MsgErrInvalid ==
    <<"E", "R", "R", "_", "I", "N", "V", "A", "L", "I", "D", "_", "A", "R",
    "G">>

MsgLowerInvalid ==
    <<"i", "n", "v", "a", "l", "i", "d", " ", "o", "r", "d", "e", "r", " ",
    "d", "a", "t", "a">>

\* How an attempt ends: the callback of client.request gets a response
\* object, a response that is no object, or an error, or the timer fires
\* first.
AttemptOutcomes ==
    {[kind |-> "response", message |-> NoMessage],
     [kind |-> "badResponse", message |-> NoMessage],
     [kind |-> "timeout", message |-> NoMessage]}
    \cup [kind : {"error"},
          message : {MsgLookupEmpty, MsgErrInvalid, MsgLowerInvalid,
                     MsgInvalidResponse}]

\* The error an attempt that did not resolve is rejected with.
rejection(outcome) ==
    IF outcome.kind = "timeout" THEN MsgTimeout
    ELSE IF outcome.kind = "badResponse" THEN MsgInvalidResponse
    ELSE outcome.message

\* maxRetries, as requestWithTimeout sets it before its loop.
maxRetries == 5

\* isRetryable in the catch of requestWithTimeout.
isRetryable(message) ==
    ~includes(message, Invalid) /\ ~includes(message, INVALID)

\* The catch of requestWithTimeout without the test of retryCount.
afterFailedAttemptNoLimit(r, message) ==
    IF ~isRetryable(message)
    THEN [r EXCEPT !.pc = "raised", !.lastError = message,
                   !.raised = message]
    ELSE [r EXCEPT !.retryCount = @ + 1, !.lastError = message]

\* The catch of requestWithTimeout and what follows it: the error becomes
\* lastError, the loop is left when the error is not retryable or the
\* retries are used up, and lastError is thrown after the loop.
afterFailedAttempt(r, message) ==
    IF ~isRetryable(message) \/ r.retryCount >= maxRetries
    THEN [r EXCEPT !.pc = "raised", !.lastError = message,
                   !.raised = message]
    ELSE [r EXCEPT !.retryCount = @ + 1, !.lastError = message]

\* One pass of the loop of requestWithTimeout: client.request is called and
\* ends with the outcome.
attempt(r, outcome) ==
    IF outcome.kind = "response"
    THEN [r EXCEPT !.pc = "resolved", !.attempts = @ + 1]
    ELSE afterFailedAttempt([r EXCEPT !.attempts = @ + 1],
                            rejection(outcome))

InitRequest ==
    /\ heap = <<>>
    /\ calls = 0
    /\ buyOrders = <<>>
    /\ sellOrders = <<>>
    /\ matches = <<>>
    /\ last = Result("new", Null, NoError, 0, <<>>, 0)
    /\ snap = NoSnap
    /\ \E role \in {"client", "server"} :
          node = [role |-> role, request |-> NoRequest]

\* The actions of the payloads submitOrder, cancelOrder and syncOrderbook
\* hand to requestWithTimeout.
RequestedActions == {SUBMIT_ORDER, CANCEL_ORDER, GET_ORDERBOOK}

\* requestWithTimeout(payload) is called: without a PeerRPCClient it throws
\* at once, otherwise the loop is entered.
RequestWithTimeout(action) ==
    /\ node.request.pc # "attempting"
    /\ node' = [node EXCEPT !.request = requestWithTimeout(node.role, action)]
    /\ last' = Result("requestWithTimeout", action, NoError, 0, <<>>, 0)
    /\ UNCHANGED <<heap, calls, buyOrders, sellOrders, matches, snap>>

\* An attempt of the call in progress ends.
Attempt(outcome) ==
    /\ node.request.pc = "attempting"
    /\ node' = [node EXCEPT !.request = attempt(@, outcome)]
    /\ last' = Result("attempt", outcome, NoError, 0, <<>>, 0)
    /\ UNCHANGED <<heap, calls, buyOrders, sellOrders, matches, snap>>

NextRequest ==
    \/ \E action \in RequestedActions : RequestWithTimeout(action)
    \/ \E outcome \in AttemptOutcomes : Attempt(outcome)

SpecRequest == InitRequest /\ [][NextRequest]_vars

\* ------------------------------------------------ P2PService: start and stop
\* maxSyncAttempts of startClient.
maxSyncAttempts == 5

\* The node after construction: nothing is started. pc is where start()
\* stands, wait the delay in ms of the timer start() awaits (0: none),
\* periodic the timer of the periodic sync, announce the timer
\* announceInterval, listening the transport server `service` taking
\* requests, sync the periodic syncOrderbook call.
NewLife(role) ==
    [role |-> role, pc |-> "constructed", wait |-> 0, attempt |-> 0,
     syncSuccess |-> FALSE, periodic |-> FALSE, announce |-> FALSE,
     listening |-> FALSE, link |-> "new", stopped |-> FALSE, sync |-> "idle"]

\* start() with startServer() up to its await: the transport listens, the
\* request callback is registered, the announce timer is set, and a timer
\* of 5000 ms is awaited.
startServer(n) ==
    [n EXCEPT !.link = "started", !.listening = TRUE, !.announce = TRUE,
              !.pc = "waiting", !.wait = 5000]

\* start() with startClient() up to its first await: the peer is
\* initialised and a timer of 10000 ms is awaited; no attempt was made.
startClient(n) ==
    [n EXCEPT !.link = "started", !.pc = "waiting", !.wait = 10000]

\* The delay in ms before the attempt that follows attempt k:
\* 2000 * Math.pow(1.5, attempt - 1).
backoffDelay(k) == (2000 * 3 ^ (k - 1)) \div 2 ^ (k - 1)

\* The timer start() awaits has fired. In server role startServer() and
\* start() are over; in client role the loop of startClient begins its next
\* pass: attempt is counted and syncOrderbook is called and awaited.
afterWait(n) ==
    IF n.role = "server"
    THEN [n EXCEPT !.pc = "started", !.wait = 0]
    ELSE [n EXCEPT !.pc = "syncing", !.wait = 0, !.attempt = @ + 1]

\* startClient that sets no timer when every initial attempt failed.
afterInitialSyncGivesUp(n, failed) ==
    IF ~failed
    THEN [n EXCEPT !.syncSuccess = TRUE, !.periodic = TRUE, !.pc = "started"]
    ELSE IF n.attempt < maxSyncAttempts
    THEN [n EXCEPT !.pc = "waiting", !.wait = backoffDelay(n.attempt)]
    ELSE [n EXCEPT !.pc = "started"]

\* startClient() after an initial syncOrderbook settled: success leaves the
\* loop; a failure with attempts left awaits the backoff timer; after the
\* loop the periodic sync is scheduled with setInterval and start() is over.
afterInitialSync(n, failed) ==
    IF ~failed
    THEN [n EXCEPT !.syncSuccess = TRUE, !.periodic = TRUE, !.pc = "started"]
    ELSE IF n.attempt < maxSyncAttempts
    THEN [n EXCEPT !.pc = "waiting", !.wait = backoffDelay(n.attempt)]
    ELSE [n EXCEPT !.periodic = TRUE, !.pc = "started"]

\* stop(): announceInterval is cleared, the service stops listening, the
\* link is stopped. The timer of the periodic sync is in no field of the
\* node and is not touched.
stop(n) ==
    [n EXCEPT !.announce = FALSE, !.listening = FALSE, !.link = "stopped",
              !.stopped = TRUE]

\* The orders the application puts in the book of the node.
LifeOrders ==
    {data \in NodeOrders :
        /\ data.status = Null /\ data.amount = 1
        /\ \/ data.id = 1 /\ data.type = BUY
           \/ data.id = 2 /\ data.type = SELL}

InitLife ==
    /\ heap = <<>>
    /\ calls = 0
    /\ buyOrders = <<>>
    /\ sellOrders = <<>>
    /\ matches = <<>>
    /\ last = Result("new", Null, NoError, 0, <<>>, 0)
    /\ snap = NoSnap
    /\ \E role \in {"client", "server"} : node = NewLife(role)

\* A step of the node that leaves the book alone.
LifeStep(n, op) ==
    /\ node' = n
    /\ CommitBook(heap, buyOrders, sellOrders, matches,
                  Result(op, Null, NoError, 0, <<>>, 0), NoSnap)

\* start() up to its first await.
Start ==
    /\ node.pc = "constructed"
    /\ ~node.stopped
    /\ LifeStep(IF node.role = "server" THEN startServer(node)
                ELSE startClient(node), "start")

\* The timer start() awaits fires (stop() does not clear it).
StartTimerFires ==
    /\ node.pc = "waiting"
    /\ LifeStep(afterWait(node), "startTimer")

\* An initial syncOrderbook of startClient settled with the response.
InitialSyncReply(response) ==
    /\ node.pc = "syncing"
    /\ \E r \in {syncOrderbook(heap, buyOrders, sellOrders, matches,
                                response)} :
          /\ node' = afterInitialSync(node, r.sync = "raised")
          /\ CommitBook(r.heap, r.buy, r.sell, r.matches,
                        Result("initialSync", response, r.err, 0, <<>>, 0),
                        NoSnap)

\* The timer of the periodic sync fires: syncOrderbook up to its await.
PeriodicSyncFires ==
    /\ node.periodic
    /\ node.sync = "idle"
    /\ LifeStep([node EXCEPT !.sync = "requesting"], "periodicSync")

\* The periodic syncOrderbook settled with the response; its error, if
\* any, is caught and logged.
PeriodicSyncReply(response) ==
    /\ node.sync = "requesting"
    /\ \E r \in {syncOrderbook(heap, buyOrders, sellOrders, matches,
                                response)} :
          /\ node' = [node EXCEPT !.sync = "idle"]
          /\ CommitBook(r.heap, r.buy, r.sell, r.matches,
                        Result("periodicSyncReply", response, r.err, 0, <<>>,
                               0), NoSnap)

\* The timer announceInterval fires: link.announce.
AnnounceFires ==
    /\ node.announce
    /\ last.op # "announce"
    /\ LifeStep(node, "announce")

\* A request reaches the listening transport: the request callback runs.
RequestArrives ==
    /\ node.listening
    /\ last.op # "request"
    /\ LifeStep(node, "request")

\* stop()
Stop ==
    /\ node.link = "started"
    /\ LifeStep(stop(node), "stop")

NextLife ==
    \/ \E data \in LifeOrders : AddOrder(data)
    \/ Start
    \/ StartTimerFires
    \/ \E response \in SyncReplies : InitialSyncReply(response)
    \/ PeriodicSyncFires
    \/ \E response \in SyncReplies : PeriodicSyncReply(response)
    \/ AnnounceFires
    \/ RequestArrives
    \/ Stop

SpecLife == InitLife /\ [][NextLife]_vars

\* ------------------------------ P2PService: submitOrder to its completion
\* A node that was constructed and not started ("new": no peer), or started
\* as a client or as a server; beside its submitOrder calls it holds the
\* requestWithTimeout call of the submission that is broadcasting.
LiveRoles == {"new", "client", "server"}

LiveNode(role) ==
    [role |-> role, holder |-> 0, queue |-> <<>>,
     sub |-> [c \in SubmitCalls |-> NoCall], cancelCall |-> NoCall,
     sync |-> "idle", requests |-> {}, reply |-> NoReply,
     request |-> NoRequest]

\* The orders submitted: buy orders of two ids (the second submission of an
\* id is a duplicate while the first rests), and an order that addOrder
\* rejects for its status.
LiveOrders ==
    [id : Ids, type : {BUY}, price : {1}, amount : {1},
     clientId : {"client"}, originalAmount : {0}, timestamp : Times,
     status : {Null}]
    \cup [id : {1}, type : {BUY}, price : {1}, amount : {1},
          clientId : {"client"}, originalAmount : {0}, timestamp : Times,
          status : {CANCELLED}]

\* How an attempt of the broadcast ends.
LiveOutcomes ==
    {[kind |-> "response", message |-> NoMessage],
     [kind |-> "timeout", message |-> NoMessage],
     [kind |-> "error", message |-> MsgErrInvalid]}

InitLive ==
    /\ heap = <<>>
    /\ calls = 0
    /\ buyOrders = <<>>
    /\ sellOrders = <<>>
    /\ matches = <<>>
    /\ last = Result("new", Null, NoError, 0, <<>>, 0)
    /\ snap = NoSnap
    /\ \E role \in LiveRoles : node = LiveNode(role)

\* An attempt of that call ends: the callback of client.request runs or
\* the timer of the attempt fires.
SubmitAttempt(c, outcome) ==
    /\ node.sub[c].pc = "broadcasting"
    /\ node.request.pc = "attempting"
    /\ node' = [node EXCEPT !.request = attempt(@, outcome)]
    /\ CommitBook(heap, buyOrders, sellOrders, matches,
                  Result("attempt", c, NoError, 0, <<>>, 0), NoSnap)

\* requestWithTimeout has resolved or thrown: the rest of submitOrder.
SubmitSettled(c) ==
    /\ node.sub[c].pc = "broadcasting"
    /\ node.request.pc \in {"resolved", "raised"}
    /\ node' = afterBroadcast([node EXCEPT !.request = NoRequest], c,
                              node.request.pc = "resolved")
    /\ CommitBook(heap, buyOrders, sellOrders, matches,
                  Result("submitOrderReturn", c, NoError, 0, <<>>, 0), NoSnap)

NextLive ==
    \/ \E c \in SubmitCalls, data \in LiveOrders : SubmitOrder(c, data)
    \/ \E c \in SubmitCalls : SubmitAddOrder(c)
    \/ \E c \in SubmitCalls, outcome \in LiveOutcomes : SubmitAttempt(c, outcome)
    \/ \E c \in SubmitCalls : SubmitSettled(c)

\* What the event loop does for a submission by itself: the code after an
\* await whose promise has settled, and the end of an attempt.
ContinueSubmit ==
    \E c \in SubmitCalls :
       \/ SubmitAddOrder(c)
       \/ \E outcome \in LiveOutcomes : SubmitAttempt(c, outcome)
       \/ SubmitSettled(c)

\* The event loop runs every continuation that is ready, and every attempt
\* ends: the timer set beside client.request fires if the callback did not
\* run before. Only the call that holds the mutex has a step to take, so one
\* fairness condition covers them. The application is free to submit or not.
SpecLive == InitLive /\ [][NextLive]_vars /\ WF_vars(ContinueSubmit)

\* ------------------------------------------------------------ observations
\* The value of a match record: its fields with the two orders it points to.
MatchValue(h, m) ==
    IF h[m].kind = "match"
    THEN [matchedAmount |-> h[m].matchedAmount, price |-> h[m].price,
          buyOrder |-> h[h[m].buyOrder], sellOrder |-> h[h[m].sellOrder]]
    ELSE h[m]

\* What an observer reads from the book: the orders of both collections and
\* the history, by value.
View(h, buy, sell, ms) ==
    [buyOrders |-> [i \in DOMAIN buy |-> h[buy[i]]],
     sellOrders |-> [i \in DOMAIN sell |-> h[sell[i]]],
     matches |-> [i \in DOMAIN ms |-> MatchValue(h, ms[i])]]

BookUnchanged ==
    View(heap', buyOrders', sellOrders', matches')
        = View(heap, buyOrders, sellOrders, matches)

\* The step is an addOrder call that returned a result.
Added == last'.op = "addOrder" /\ last'.err = NoError

\* After such a step: the incoming order, the collection it was matched
\* against before the call, and its own collection after the call.
Incoming == heap'[last'.order]
Opposite == IF Incoming.type = BUY THEN sellOrders ELSE buyOrders
OppositeAfter == IF Incoming.type = BUY THEN sellOrders' ELSE buyOrders'
OwnAfter == IF Incoming.type = BUY THEN buyOrders' ELSE sellOrders'

\* The k-th match the call returned, the copy of the resting order in it,
\* and that resting order as it was in the book before the call.
ReturnedMatch(k) == heap'[last'.matches[k]]
RestingCopy(k) ==
    IF Incoming.type = BUY THEN heap'[ReturnedMatch(k).sellOrder]
    ELSE heap'[ReturnedMatch(k).buyOrder]
RestingBefore(k) ==
    heap[Opposite[FindIndexById(heap, Opposite, RestingCopy(k).id)]]

\* The sum of matchedAmount over the returned matches k..n.
RECURSIVE MatchedFrom(_)
MatchedFrom(k) ==
    IF k > Len(last'.matches) THEN 0
    ELSE ReturnedMatch(k).matchedAmount + MatchedFrom(k + 1)

\* The resting order r can match the incoming order (sides and prices, which
\* never change, and r's status).
Compatible(r) ==
    /\ isActive(r)
    /\ r.type # Incoming.type
    /\ IF Incoming.type = BUY THEN Incoming.price >= r.price
       ELSE Incoming.price <= r.price

\* ------------------------------------------------------------------ claims
\* C1: when addOrder matches the incoming order against a resting order for
\* less than the resting order's remaining amount, the resting order kept in
\* the book has its amount reduced by the matched amount and status
\* PARTIALLY_FILLED.
C1_RestingReducedByPartialFill ==
    [][Added =>
        \A k \in DOMAIN last'.matches :
            ReturnedMatch(k).matchedAmount < RestingBefore(k).amount =>
                \E j \in DOMAIN OppositeAfter :
                    /\ heap'[OppositeAfter[j]].id = RestingBefore(k).id
                    /\ heap'[OppositeAfter[j]].amount
                          = RestingBefore(k).amount - ReturnedMatch(k).matchedAmount
                    /\ heap'[OppositeAfter[j]].status = PARTIALLY_FILLED]_vars

\* C2: after a successful addOrder a resting order matched for its whole
\* remaining amount is in neither collection; the incoming order is in its
\* own collection iff it was not fully filled, and remainingOrder is then
\* that order, otherwise null; with no compatible resting order there are 0
\* matches and the order rests on its side.
C2_MembershipReflectsFills ==
    [][Added =>
        /\ \A k \in DOMAIN last'.matches :
              ReturnedMatch(k).matchedAmount = RestingBefore(k).amount =>
                  /\ FindIndexById(heap', buyOrders', RestingBefore(k).id) = 0
                  /\ FindIndexById(heap', sellOrders', RestingBefore(k).id) = 0
        /\ (Incoming.status # FILLED) <=> (\E j \in DOMAIN OwnAfter :
                                              OwnAfter[j] = last'.order)
        /\ last'.remainingOrder
              = (IF Incoming.status # FILLED THEN last'.order ELSE 0)
        /\ (\A i \in DOMAIN Opposite : ~Compatible(heap[Opposite[i]])) =>
              /\ last'.matches = <<>>
              /\ \E j \in DOMAIN OwnAfter : OwnAfter[j] = last'.order]_vars

\* C2 witness: a call that filled a resting order completely and left the
\* incoming order resting with the remainder.
C2_Witness ==
    /\ last.op = "addOrder" /\ last.err = NoError
    /\ Len(last.matches) = 1
    /\ last.remainingOrder # 0
    /\ heap[last.order].status = PARTIALLY_FILLED
    /\ \E i \in DOMAIN buyOrders : buyOrders[i] = last.order
    /\ sellOrders = <<>>

\* C3: every match of addOrder has matchedAmount = min(incoming remaining
\* amount, resting remaining amount) at the moment of the match and the
\* price of the resting order.
C3_AmountIsMinPriceIsResting ==
    [][Added =>
        \A k \in DOMAIN last'.matches :
            /\ ReturnedMatch(k).matchedAmount
                  = Min(Incoming.amount + MatchedFrom(k), RestingBefore(k).amount)
            /\ ReturnedMatch(k).price = RestingBefore(k).price]_vars

\* C3 witness: a match at a resting price that differs from the incoming
\* order's price, for less than the incoming order asked.
C3_Witness ==
    /\ last.op = "addOrder" /\ last.err = NoError
    /\ Len(last.matches) = 1
    /\ heap[last.matches[1]].price # heap[last.order].price
    /\ heap[last.order].amount > 0

\* The resting order a comes before the resting order b for the incoming
\* order: better price, then older, then smaller id.
Precedes(a, b) ==
    IF a.price # b.price
    THEN IF Incoming.type = BUY THEN a.price < b.price ELSE a.price > b.price
    ELSE IF a.timestamp # b.timestamp THEN a.timestamp < b.timestamp
    ELSE a.id < b.id

\* C4: addOrder consumes the compatible resting orders in price-time
\* priority (best price, then oldest timestamp, then smallest id): the
\* matches of a call follow that order, and a compatible resting order that
\* precedes a matched one was matched earlier in the call for its whole
\* amount.
C4_PriceTimePriority ==
    [][Added =>
        \A k \in DOMAIN last'.matches :
            /\ \A j \in 1..(k - 1) : Precedes(RestingBefore(j), RestingBefore(k))
            /\ \A i \in DOMAIN Opposite :
                  LET r == heap[Opposite[i]]
                  IN (Compatible(r) /\ Precedes(r, RestingBefore(k))) =>
                        \E j \in 1..(k - 1) :
                            /\ RestingCopy(j).id = r.id
                            /\ ReturnedMatch(j).matchedAmount = r.amount]_vars

\* C4 witness: an incoming BUY matched two resting sells of one price, the
\* older one first although its id is the larger.
C4_Witness ==
    /\ last.op = "addOrder" /\ last.err = NoError
    /\ Len(last.matches) = 2
    /\ heap[last.order].type = BUY
    /\ LET first == heap[heap[last.matches[1]].sellOrder]
           second == heap[heap[last.matches[2]].sellOrder]
       IN /\ first.price = second.price
          /\ first.timestamp < second.timestamp
          /\ first.id > second.id

\* C5: every match addOrder appends has a BUY buy order, a SELL sell order,
\* matchedAmount > 0, price > 0 and sell price <= buy price.
C5_AppendedMatchesAreSound ==
    (last.op = "addOrder" /\ last.err = NoError) =>
        \A k \in DOMAIN last.matches :
            LET m == heap[last.matches[k]]
            IN /\ heap[m.buyOrder].type = BUY
               /\ heap[m.sellOrder].type = SELL
               /\ m.matchedAmount > 0
               /\ m.price > 0
               /\ heap[m.sellOrder].price <= heap[m.buyOrder].price

\* C5 witness: a call appended a match of a sell order priced below the buy
\* order.
C5_Witness ==
    /\ last.op = "addOrder" /\ last.err = NoError
    /\ last.matches # <<>>
    /\ matches # <<>>
    /\ matches[Len(matches)] = last.matches[Len(last.matches)]
    /\ heap[heap[last.matches[1]].sellOrder].price
          < heap[heap[last.matches[1]].buyOrder].price

\* C6: addOrder fails with INVALID_ORDER_STATUS for an order that is not
\* active and with DUPLICATE_ORDER_ID for an id already in the buy or the
\* sell collection; a failed call leaves both collections and the history
\* unchanged.
C6_RejectedAddLeavesBook ==
    [][last'.op = "addOrder" =>
        /\ last'.arg.status \in {FILLED, CANCELLED} =>
              last'.err = "INVALID_ORDER_STATUS"
        /\ (/\ last'.arg.status = Null
            /\ \/ FindIndexById(heap, buyOrders, last'.arg.id) # 0
               \/ FindIndexById(heap, sellOrders, last'.arg.id) # 0) =>
              last'.err = "DUPLICATE_ORDER_ID"
        /\ last'.err # NoError => BookUnchanged]_vars

\* C6 witness: a submission rejected because its id rests on the sell side.
C6_Witness ==
    /\ last.op = "addOrder"
    /\ last.err = "DUPLICATE_ORDER_ID"
    /\ FindIndexById(heap, sellOrders, last.arg.id) # 0

\* The order cancelOrder(last'.arg) finds in the book before the call.
Found == findOrderById(heap, buyOrders, sellOrders, last'.arg)

\* The orders of a collection by value, without the first one of the id.
ValuesWithout(h, orders, orderId) ==
    LET rest == removeOrder(h, orders, orderId)
    IN [i \in DOMAIN rest |-> h[rest[i]]]

\* C7: cancelOrder(id) for an id resting in the book removes that order from
\* its collection, sets its status to CANCELLED and returns it; every other
\* resting order and the match history are unchanged; a FILLED order found
\* makes the call fail with CANCEL_ERROR.
C7_CancelRemovesOnlyThatOrder ==
    [][(last'.op = "cancelOrder" /\ last'.arg # 0 /\ Found # 0) =>
        IF heap[Found].status = FILLED THEN last'.err = "CANCEL_ERROR"
        ELSE /\ last'.err = NoError
             /\ last'.order # 0
             /\ heap'[last'.order].id = last'.arg
             /\ heap'[last'.order].status = CANCELLED
             /\ LET after == View(heap', buyOrders', sellOrders', matches')
                    before == View(heap, buyOrders, sellOrders, matches)
                    inBuy == FindIndexById(heap, buyOrders, last'.arg) # 0
                IN /\ after.buyOrders
                        = (IF inBuy
                           THEN ValuesWithout(heap, buyOrders, last'.arg)
                           ELSE before.buyOrders)
                   /\ after.sellOrders
                        = (IF inBuy THEN before.sellOrders
                           ELSE ValuesWithout(heap, sellOrders, last'.arg))
                   /\ after.matches = before.matches]_vars

\* C8: cancelOrder with a non-empty id that is in neither collection returns
\* undefined, raises nothing and changes nothing; with an empty id it fails
\* with MISSING_ORDER_ID and changes nothing.
C8_CancelUnknownIsNoOp ==
    [][last'.op = "cancelOrder" =>
        /\ last'.arg = 0 =>
              (last'.err = "MISSING_ORDER_ID" /\ BookUnchanged)
        /\ (last'.arg # 0 /\ Found = 0) =>
              (last'.err = NoError /\ last'.order = 0 /\ BookUnchanged)]_vars

\* C8 witness: a cancel of an id that is not in a book that holds an order
\* and a match.
C8_Witness ==
    /\ last.op = "cancelOrder"
    /\ last.arg # 0
    /\ last.err = NoError
    /\ last.order = 0
    /\ buyOrders \o sellOrders # <<>>
    /\ matches # <<>>

\* C9: the value getState returns is a deep copy: no mutation a caller
\* performs on a returned order, a returned match record or an order inside
\* a returned match changes the book's resting orders or its history.
C9_SnapshotIsDeepCopy ==
    [][last'.op = "callerMutation" => BookUnchanged]_vars

\* C10: setState given a state with a field that is not an array, or with an
\* element that is a primitive, fails with INVALID_STATE and leaves the book
\* as it was.
C10_MalformedStateRejected ==
    [][(/\ last'.op = "setState"
        /\ \/ ~last'.arg.buyOrders
           \/ ~last'.arg.sellOrders
           \/ ~last'.arg.matches
           \/ last'.arg.primitive) =>
        (last'.err = "INVALID_STATE" /\ BookUnchanged)]_vars

\* C11: an order built with default originalAmount and status and changed
\* only by updateAfterMatch and cancel has 0 <= amount <= originalAmount in
\* every state, and status FILLED exactly when amount is 0.
C11_AmountInRangeFilledIffZero ==
    /\ 0 <= heap[1].amount
    /\ heap[1].amount <= heap[1].originalAmount
    /\ (heap[1].status = FILLED) <=> (heap[1].amount = 0)

\* C11 witness: an order of amount 3 filled to 0 by a fill of 2 and one of 1.
C11_Witness ==
    /\ heap[1].originalAmount = 3
    /\ heap[1].amount = 0
    /\ heap[1].status = FILLED
    /\ heap[1].version = 3
    /\ last.op = "updateAfterMatch"
    /\ last.arg = 1

\* Call c is inside the exclusive section: it holds the mutex.
InSection(c) == node.sub[c].pc \in {"acquired", "broadcasting"}

\* Call c leaves the position pc in this step.
Leaves(c, pc) == node.sub[c].pc = pc /\ node'.sub[c].pc # pc

\* C12: at most one submitOrder call of a node is inside the exclusive
\* section (local match and broadcast attempt) at any time.
C12_OneSubmissionInSection ==
    /\ \A c, d \in SubmitCalls : (InSection(c) /\ InSection(d)) => c = d
    /\ \A c \in SubmitCalls : InSection(c) <=> node.holder = c

\* C12 witness: one call waits for its broadcast while the other waits for
\* the mutex.
C12_Witness ==
    /\ node.sub[1].pc = "broadcasting"
    /\ node.sub[2].pc = "waiting"
    /\ node.queue = <<2>>

\* C13: submitOrder applies the order to the local book, hands it to the
\* broadcast as SUBMIT_ORDER and returns the addOrder result whether the
\* broadcast succeeds or fails; the end of the broadcast leaves the book as
\* it is.
C13_SubmitReturnsLocalResult ==
    [][\A c \in SubmitCalls :
        /\ (Leaves(c, "acquired") /\ last'.err = NoError) =>
              /\ last'.op = "addOrder"
              /\ node'.sub[c].pc = "broadcasting"
              /\ [action |-> SUBMIT_ORDER, id |-> Incoming.id] \in node'.requests
              /\ node'.sub[c].result.order = Incoming.id
              /\ node'.sub[c].result.matches = Len(last'.matches)
              /\ node'.sub[c].result.remainingOrder
                    = (IF last'.remainingOrder = 0 THEN 0 ELSE Incoming.id)
        /\ Leaves(c, "broadcasting") =>
              /\ node'.sub[c].pc = "returned"
              /\ node'.sub[c].result = node.sub[c].result
              /\ BookUnchanged]_vars

\* C13 witness: on a node in server role, where every broadcast fails, the
\* second call returned a result with a match.
C13_Witness ==
    /\ node.role = "server"
    /\ node.sub[2].pc = "returned"
    /\ node.sub[2].result.matches = 1
    /\ last.op = "submitOrderReturn"

\* C14: when addOrder fails inside submitOrder (inactive order, duplicate
\* id) the error is raised to the caller, the book is unchanged and nothing
\* is handed to the broadcast.
C14_FailedSubmitRaises ==
    [][\A c \in SubmitCalls :
        (/\ Leaves(c, "acquired")
         /\ \/ node.sub[c].data.status \in {FILLED, CANCELLED}
            \/ FindIndexById(heap, buyOrders, node.sub[c].data.id) # 0
            \/ FindIndexById(heap, sellOrders, node.sub[c].data.id) # 0) =>
           /\ node'.sub[c].pc = "raised"
           /\ node'.sub[c].err
                 = (IF node.sub[c].data.status \in {FILLED, CANCELLED}
                    THEN "INVALID_ORDER_STATUS" ELSE "DUPLICATE_ORDER_ID")
           /\ BookUnchanged
           /\ node'.requests = node.requests]_vars

\* C14 witness: the second call was refused for the id of the first, which
\* rests in the book.
C14_Witness ==
    /\ node.sub[1].pc = "returned"
    /\ node.sub[2].pc = "raised"
    /\ node.sub[2].err = "DUPLICATE_ORDER_ID"
    /\ Cardinality(node.requests) = 1

\* C15: P2PService.cancelOrder cancels in the local book first; CANCEL_ORDER
\* is handed to the broadcast only when an order was cancelled and the node
\* is in client role; a failed broadcast raises CANCEL_FAILED and undoes
\* nothing: the order stays cancelled and the book is as the cancellation
\* (and the submissions made since) left it.
C15_CancelLocalThenBroadcast ==
    [][/\ last'.op = "cancelOrder" =>
            /\ last'.arg # 0 =>
                  /\ FindIndexById(heap', buyOrders', last'.arg) = 0
                  /\ FindIndexById(heap', sellOrders', last'.arg) = 0
            /\ IF last'.order # 0 /\ node.role = "client"
               THEN /\ node'.cancelCall.pc = "broadcasting"
                    /\ node'.cancelCall.result.status = CANCELLED
                    /\ node'.requests
                          = node.requests \cup {[action |-> CANCEL_ORDER,
                                                 id |-> last'.arg]}
               ELSE /\ node'.cancelCall.pc \in {"returned", "raised"}
                    /\ node'.requests = node.requests
       /\ last'.op = "cancelOrderReturn" =>
            /\ node'.cancelCall.pc
                  = (IF last'.arg THEN "returned" ELSE "raised")
            /\ ~last'.arg => node'.cancelCall.err = "CANCEL_FAILED"
            /\ node'.cancelCall.result = node.cancelCall.result
            /\ node'.cancelCall.result.status = CANCELLED
            /\ BookUnchanged]_vars

\* C15 witness: the broadcast of a cancellation failed and the call raised
\* CANCEL_FAILED for an order that is cancelled.
C15_Witness ==
    /\ last.op = "cancelOrderReturn"
    /\ node.cancelCall.pc = "raised"
    /\ node.cancelCall.err = "CANCEL_FAILED"
    /\ node.cancelCall.result.status = CANCELLED

\* A request is well-formed: an object with a clientId, a recognised action
\* and data.
WellFormed(rawPayload) ==
    /\ rawPayload.kind = "object"
    /\ rawPayload.clientId \in {SelfId, OtherId}
    /\ rawPayload.action \in ServiceAction
    /\ rawPayload.data = "object"

\* A request was handled and nothing but the reply changed.
OnlyReplied ==
    /\ BookUnchanged
    /\ node' = [node EXCEPT !.reply = node'.reply]

\* C16: every well-formed request of another node has a structured reply
\* when its handling is over (the handler is used by handleRequest alone, so
\* a request without a reply then never has one).
C16_ForeignRequestIsAnswered ==
    [][last'.op = "handleRequest" /\ WellFormed(last'.arg)
         /\ last'.arg.clientId = OtherId
       => node'.reply.kind = "response"]_vars

\* C17: a well-formed request carrying the node's own clientId is answered
\* {status: skipped, reason: own request}, a request with an invalid
\* envelope is answered with an error, and either changes nothing else of
\* the book or the node.
C17_OwnAndInvalidRequestsChangeNothing ==
    [][last'.op = "handleRequest" =>
         /\ WellFormed(last'.arg) /\ last'.arg.clientId = SelfId
              => node'.reply = SkippedReply /\ OnlyReplied
         /\ ~WellFormed(last'.arg)
              => node'.reply.kind = "error" /\ OnlyReplied]_vars

\* C17 witness: a node holding an order skipped its own cancelOrder request.
C17_Witness ==
    /\ last.op = "handleRequest"
    /\ last.arg.clientId = SelfId
    /\ last.arg.action = CANCEL_ORDER
    /\ node.reply = SkippedReply
    /\ buyOrders \o sellOrders # <<>>

\* The step is the end of a syncOrderbook call whose request got a reply.
Synced == last'.op = "syncOrderbook" /\ last'.arg.ok

\* The reply has status success and a state made of three arrays.
ThreeArrays(response) ==
    /\ response.status = "success"
    /\ response.hasState
    /\ response.state.kind = "object"
    /\ response.state.buyOrders.isArray
    /\ response.state.sellOrders.isArray
    /\ response.state.matches.isArray

\* The orders at the addresses are, in some order, the orders of parsed.
SameOrders(h, orders, parsed) ==
    /\ Len(orders) = Len(parsed)
    /\ {h[orders[i]] : i \in DOMAIN orders}
         = {parsed[i] : i \in DOMAIN parsed}

\* C18: when syncOrderbook applies a reply, the buy orders, the sell orders
\* and the history of the book are the entries of the reply that parse, the
\* orders sorted by price, and nothing else: what the book held before is
\* gone.
C18_SyncReplacesTheBook ==
    [][Synced /\ node'.sync = "applied" =>
         LET state == last'.arg.state
             ms == mapMatches(state.matches.items)
         IN /\ SameOrders(heap', buyOrders', safelyMapOrders(state.buyOrders))
            /\ SameOrders(heap', sellOrders', safelyMapOrders(state.sellOrders))
            /\ \A i \in DOMAIN buyOrders' : \A j \in DOMAIN buyOrders' :
                  i < j => heap'[buyOrders'[i]].price >= heap'[buyOrders'[j]].price
            /\ \A i \in DOMAIN sellOrders' : \A j \in DOMAIN sellOrders' :
                  i < j => heap'[sellOrders'[i]].price <= heap'[sellOrders'[j]].price
            /\ Len(matches') = Len(ms)
            /\ \A i \in DOMAIN ms :
                  MatchValue(heap', matches'[i])
                    = [matchedAmount |-> ms[i].matchedAmount,
                       price |-> ms[i].price,
                       buyOrder |-> ms[i].buyOrder,
                       sellOrder |-> ms[i].sellOrder]]_vars

\* C18 witness: orders were added locally, and after a sync the book holds
\* the two buy orders and the sell order of the reply, all of the peer.
C18_Witness ==
    /\ last.op = "syncOrderbook"
    /\ node.sync = "applied"
    /\ calls > 0
    /\ Len(buyOrders) = 2
    /\ Len(sellOrders) = 1
    /\ \A i \in DOMAIN buyOrders : heap[buyOrders[i]].clientId = "peer"
    /\ heap[sellOrders[1]].clientId = "peer"
    /\ Len(matches) = 1

\* C19: a reply whose status is not success, whose state is missing or whose
\* state is not made of three arrays ends the sync and leaves the
\* collections and the history of the book as they were.
C19_MalformedReplyChangesNothing ==
    [][Synced /\ ~ThreeArrays(last'.arg) =>
         /\ node'.sync \in {"returned", "raised"}
         /\ BookUnchanged]_vars

\* C19 witness: a sync ended on a state whose buyOrders is no array, on a
\* book holding orders.
C19_Witness ==
    /\ last.op = "syncOrderbook"
    /\ last.arg.ok /\ last.arg.status = "success" /\ last.arg.hasState
    /\ last.arg.state.kind = "object"
    /\ ~last.arg.state.buyOrders.isArray
    /\ node.sync = "raised"
    /\ buyOrders \o sellOrders # <<>>

\* C20: a reply with status success and a state of three arrays is applied
\* whatever its entries are: the entries that do not parse are left out and
\* setState gets the others.
C20_BadEntryNeverFailsTheSync ==
    [][Synced /\ ThreeArrays(last'.arg) =>
         /\ node'.sync = "applied"
         /\ SameOrders(heap', buyOrders',
                       safelyMapOrders(last'.arg.state.buyOrders))
         /\ SameOrders(heap', sellOrders',
                       safelyMapOrders(last'.arg.state.sellOrders))
         /\ Len(matches') = Len(mapMatches(last'.arg.state.matches.items))]_vars

\* The step is the end of an attempt that did not resolve.
AttemptFailed == last'.op = "attempt" /\ last'.arg.kind # "response"

\* The error of the attempt that just ended.
Observed ==
    IF last'.arg.kind = "timeout" THEN MsgTimeout
    ELSE IF last'.arg.kind = "badResponse" THEN MsgInvalidResponse
    ELSE last'.arg.message

\* The call goes on with one more attempt.
Retried ==
    /\ node'.request.pc = "attempting"
    /\ node'.request.retryCount = node.request.retryCount + 1

\* The call ends by raising the error of the attempt that just ended.
RaisedObserved ==
    /\ node'.request.pc = "raised"
    /\ node'.request.raised = Observed

\* C21: a requestWithTimeout call makes at most 6 attempts; an attempt that
\* times out fails with the timeout error and is retried like the failures
\* with a transport error, as long as fewer than 5 retries were made; after
\* the 5th retry the call raises the error of the last attempt.
C21_AtMostSixAttempts ==
    [][last'.op = "attempt" =>
         /\ node'.request.attempts = node.request.attempts + 1
         /\ node'.request.attempts <= 6
         /\ node'.request.attempts = node.request.retryCount + 1
         /\ AttemptFailed => node'.request.lastError = Observed
         /\ (AttemptFailed /\ Observed \in {MsgTimeout, MsgLookupEmpty}) =>
               IF node.request.retryCount < 5 THEN Retried
               ELSE RaisedObserved
         /\ node'.request.pc = "raised" => RaisedObserved]_vars

\* C21 witness: the sixth attempt timed out and the call raised the timeout
\* error.
C21_Witness ==
    /\ last.op = "attempt"
    /\ last.arg.kind = "timeout"
    /\ node.request.pc = "raised"
    /\ node.request.attempts = 6
    /\ node.request.retryCount = 5
    /\ node.request.raised = MsgTimeout

\* The letters of "invalid" in lower case; any other character is itself.
Lower(ch) ==
    CASE ch = "I" -> "i" [] ch = "N" -> "n" [] ch = "V" -> "v"
      [] ch = "A" -> "a" [] ch = "L" -> "l" [] ch = "D" -> "d"
      [] OTHER -> ch

\* The message contains "invalid" in any letter case.
SaysInvalid(message) ==
    includes([i \in DOMAIN message |-> Lower(message[i])],
             <<"i", "n", "v", "a", "l", "i", "d">>)

\* C22: an attempt failing with an error whose message contains "invalid" in
\* any letter case ends the call, which raises that error; any other failure
\* is retried while retries are left.
C22_InvalidInAnyCaseIsNotRetried ==
    [][AttemptFailed =>
         IF SaysInvalid(Observed) THEN RaisedObserved
         ELSE IF node.request.retryCount < 5 THEN Retried
         ELSE RaisedObserved]_vars

\* C23: in client role start() makes at most 5 initial sync attempts, each
\* begun when the timer start() awaits fires, and makes no other once one
\* succeeded; a failed attempt leaves the book as it was and, while attempts
\* are left, is followed by a wait; after the success or the 5th failure
\* start() is over and the periodic sync is scheduled; a failed periodic sync
\* leaves it scheduled.
C23_InitialSyncIsBounded ==
    [][/\ node'.attempt <= 5
       /\ node'.attempt # node.attempt =>
            /\ last'.op = "startTimer"
            /\ node.pc = "waiting" /\ node'.pc = "syncing"
            /\ node'.attempt = node.attempt + 1
            /\ ~node.syncSuccess
       /\ last'.op = "initialSync" =>
            /\ node.role = "client"
            /\ node.pc = "syncing"
            /\ node'.attempt = node.attempt
            /\ IF last'.err = NoError
               THEN /\ node'.pc = "started" /\ node'.periodic
                    /\ node'.syncSuccess
               ELSE /\ BookUnchanged
                    /\ IF node.attempt < 5
                       THEN node'.pc = "waiting" /\ ~node'.periodic
                       ELSE /\ node'.pc = "started" /\ node'.periodic
                            /\ ~node'.syncSuccess
       /\ (node.pc = "started" /\ node.role = "client") =>
            /\ node'.pc = "started"
            /\ node'.attempt = node.attempt
            /\ node'.periodic
       /\ (last'.op = "periodicSyncReply" /\ last'.err # NoError) =>
            /\ BookUnchanged
            /\ node'.periodic /\ node'.sync = "idle"]_vars

\* C23 witness: the 5th initial attempt failed on a book holding an order,
\* start() is over and the periodic sync is scheduled.
C23_Witness ==
    /\ last.op = "initialSync"
    /\ last.err # NoError
    /\ node.attempt = 5
    /\ node.pc = "started"
    /\ node.periodic
    /\ ~node.syncSuccess
    /\ buyOrders \o sellOrders # <<>>

\* C24: once stop() has returned no timer of the node fires and no request
\* is taken: no announce, no periodic sync, no request callback; the link
\* is stopped.
C24_NothingFiresAfterStop ==
    [][node.stopped =>
         /\ last'.op \notin {"announce", "periodicSync", "request"}
         /\ node'.link = "stopped"]_vars

\* The order of the step, before and after it.
Before == heap[1]
After == heap'[1]

\* The status updateAfterMatch leaves for the amount that remains.
StatusFor(o, remaining) ==
    IF remaining = 0 THEN FILLED
    ELSE IF remaining < o.originalAmount THEN PARTIALLY_FILLED
    ELSE o.status

\* C25: updateAfterMatch(filledAmount) fails with INVALID_FILLED_AMOUNT for
\* NaN and for filledAmount <= 0, with FILLED_AMOUNT_EXCEEDS_AVAILABLE for
\* filledAmount above the amount, and then leaves amount and status as
\* they were; otherwise it subtracts filledAmount and the status is FILLED
\* for a remainder of 0, PARTIALLY_FILLED for one below originalAmount, and
\* unchanged for any other.
C25_FillErrorsAndStatus ==
    [][/\ last'.op = "updateAfterMatchNaN" =>
            /\ last'.err = "INVALID_FILLED_AMOUNT"
            /\ After = Before
       /\ last'.op = "updateAfterMatch" =>
            IF last'.arg <= 0
            THEN last'.err = "INVALID_FILLED_AMOUNT" /\ After = Before
            ELSE IF last'.arg > Before.amount
            THEN /\ last'.err = "FILLED_AMOUNT_EXCEEDS_AVAILABLE"
                 /\ After = Before
            ELSE /\ last'.err = NoError
                 /\ After.amount = Before.amount - last'.arg
                 /\ After.status = StatusFor(Before, After.amount)]_vars

\* C26: cancel() on a FILLED order fails with ORDER_FILLED and leaves the
\* order as it was; on any other order, a CANCELLED one included, it raises
\* nothing, the status is CANCELLED after it and the amount is as before.
C26_CancelFailsOnlyWhenFilled ==
    [][last'.op = "cancel" =>
         IF Before.status = FILLED
         THEN last'.err = "ORDER_FILLED" /\ After = Before
         ELSE /\ last'.err = NoError
              /\ After.status = CANCELLED
              /\ After.amount = Before.amount
              /\ After.originalAmount = Before.originalAmount]_vars

\* C26 witness: an order that was never filled was cancelled twice.
C26_Witness ==
    /\ last.op = "cancel"
    /\ last.err = NoError
    /\ heap[1].status = CANCELLED
    /\ heap[1].version = 3
    /\ heap[1].amount = heap[1].originalAmount
    /\ calls = 2

\* C27: an order whose status is CANCELLED keeps that status whatever
\* updateAfterMatch and cancel calls follow.
C27_CancelledIsTerminal ==
    [][Before.status = CANCELLED => After.status = CANCELLED]_vars

\* The two orders of a canMatchWith call.
This == heap[last'.arg.this]
Other == heap[last'.arg.other]

\* The price of the BUY order of the two is at least that of the SELL order.
PricesCross(a, b) ==
    IF a.type = BUY THEN a.price >= b.price ELSE b.price >= a.price

\* C28: a.canMatchWith(b) is true exactly when the orders are of different
\* types, both are OPEN or PARTIALLY_FILLED, and the price of the BUY order
\* is at least the price of the SELL order; b.canMatchWith(a) is the same.
C28_CanMatchWithIsSymmetric ==
    [][last'.op = "canMatchWith" =>
         /\ last'.arg.result
              <=> /\ This.type # Other.type
                  /\ This.status \in {OPEN, PARTIALLY_FILLED}
                  /\ Other.status \in {OPEN, PARTIALLY_FILLED}
                  /\ PricesCross(This, Other)
         /\ last'.arg.result = canMatchWith(Other, This)]_vars

\* C28 witness: a SELL order at 1 was asked about a BUY order at 2 and can
\* match it.
C28_Witness ==
    /\ last.op = "canMatchWith"
    /\ last.arg.result
    /\ heap[last.arg.this].type = SELL
    /\ heap[last.arg.this].price = 1
    /\ heap[last.arg.other].price = 2

\* The fields of an order that its clone has to repeat.
CloneFields(o) ==
    [id |-> o.id, type |-> o.type, price |-> o.price, amount |-> o.amount,
     status |-> o.status, clientId |-> o.clientId,
     originalAmount |-> o.originalAmount, timestamp |-> o.timestamp]

\* C29: clone() of an order in any state that construction, fills and
\* cancel lead to raises nothing and gives a new order with the same id,
\* type, price, amount, status, clientId, originalAmount and timestamp,
\* leaving the order as it was; later a fill or a cancel of the one leaves
\* the other as it was.
C29_CloneIsAnIndependentCopy ==
    [][/\ last'.op = "clone" =>
            /\ last'.err = NoError
            /\ Len(heap') = 2
            /\ heap'[1] = heap[1]
            /\ CloneFields(heap'[2]) = CloneFields(heap[1])
       /\ (last'.op \in {"updateAfterMatch", "cancel"} /\ Len(heap) = 2) =>
            heap'[3 - last'.order] = heap[3 - last'.order]]_vars

\* C29 witness: the clone of a partially filled order was filled to 0 and
\* the order itself was cancelled.
C29_Witness ==
    /\ Len(heap) = 2
    /\ heap[1].status = CANCELLED
    /\ heap[1].amount = 1
    /\ heap[2].status = FILLED
    /\ heap[2].amount = 0
    /\ heap[2].originalAmount = heap[1].originalAmount

\* C30: fromObject either returns an order the constructor accepts or fails
\* with INVALID_ORDER_DATA; it fails with no other error, whatever is
\* missing or out of range in the map.
C30_ParseFailsOnlyWithInvalidOrderData ==
    [][last'.op = "fromObject" =>
         IF last'.err = NoError
         THEN /\ heap'[1].price > 0
              /\ heap'[1].amount >= 0
              /\ heap'[1].type \in OrderType
              /\ heap'[1].status \in OrderStatus
              /\ heap'[1].clientId # ""
         ELSE last'.err = "INVALID_ORDER_DATA"]_vars

\* C31: new Order(data) throws INVALID_PRICE when the price is <= 0 or NaN,
\* INVALID_AMOUNT when the amount is < 0 or NaN, or is 0 while the status is
\* not FILLED, and INVALID_CLIENT_ID when the clientId is empty after trim,
\* and throws nothing else for these inputs; a throw builds no order and
\* leaves the book as it was. An order built without a status is OPEN and
\* one built without an originalAmount has originalAmount = amount.
C31_ConstructorRejectsAndDefaults ==
    [][/\ last'.op = "newOrderNaN" =>
             /\ last'.err = (IF last'.arg = "price" THEN "INVALID_PRICE"
                             ELSE "INVALID_AMOUNT")
             /\ last'.order = 0
             /\ BookUnchanged
       /\ last'.op = "newOrder" =>
             LET data == last'.arg
                 blank == \A i \in DOMAIN Chars(data.clientId) :
                             Chars(data.clientId)[i] \in WhiteSpace
             IN /\ data.price <= 0 => last'.err = "INVALID_PRICE"
                /\ (/\ data.price > 0
                    /\ \/ data.amount < 0
                       \/ data.amount = 0 /\ data.status # FILLED) =>
                      last'.err = "INVALID_AMOUNT"
                /\ (/\ data.price > 0
                    /\ data.amount > 0 \/ (data.amount = 0 /\ data.status = FILLED)
                    /\ blank) =>
                      last'.err = "INVALID_CLIENT_ID"
                /\ (/\ data.price > 0
                    /\ data.amount > 0 \/ (data.amount = 0 /\ data.status = FILLED)
                    /\ ~blank) =>
                      last'.err = NoError
                /\ last'.err # NoError => last'.order = 0 /\ BookUnchanged
                /\ last'.err = NoError =>
                      /\ BookUnchanged
                      /\ heap'[last'.order].amount = data.amount
                      /\ data.status = Null => heap'[last'.order].status = OPEN
                      /\ data.originalAmount = 0 =>
                            heap'[last'.order].originalAmount = data.amount]_vars

\* C31 witness: beside a book that holds an order, a construction with a
\* clientId of white space only was rejected.
C31_Witness ==
    /\ last.op = "newOrder"
    /\ last.arg.clientId = " \t "
    /\ last.arg.price > 0 /\ last.arg.amount > 0
    /\ last.err = "INVALID_CLIENT_ID"
    /\ Len(buyOrders) + Len(sellOrders) > 0
\* The sum of matchedAmount over the match records ms that have an order of
\* the id on either side.
RECURSIVE MatchedFor(_, _, _)
MatchedFor(h, ms, orderId) ==
    IF ms = <<>> THEN 0
    ELSE LET m == h[Head(ms)]
         IN (IF h[m.buyOrder].id = orderId \/ h[m.sellOrder].id = orderId
             THEN m.matchedAmount ELSE 0)
            + MatchedFor(h, Tail(ms), orderId)

\* C32: in a book of orders with distinct ids, the sum of matchedAmount over
\* the matches of the history that involve an order id never exceeds the
\* original amount of that order.
C32_NeverMatchedBeyondOriginal ==
    \A k \in DOMAIN matches :
        \A o \in {heap[matches[k]].buyOrder, heap[matches[k]].sellOrder} :
            MatchedFor(heap, matches, heap[o].id) <= heap[o].originalAmount
\* C33: the orders stored in a match record are copies taken at match time:
\* no later addOrder or cancelOrder changes the value of a record of the
\* history (its amount, its price, its buy order, its sell order).
C33_MatchRecordsHoldCopies ==
    [][\A k \in DOMAIN matches :
          /\ k \in DOMAIN matches'
          /\ MatchValue(heap', matches'[k]) = MatchValue(heap, matches[k])]_vars
\* C34: addOrder returns the order object it was given (the one that rests
\* in the book when a remainder is left); on return its amount is the amount
\* it came with minus the sum of matchedAmount over the returned matches;
\* the returned matches are the records this call appended to the history,
\* in the same order, and nothing else was appended.
C34_ResultAccountsForTheCall ==
    [][Added =>
        /\ Incoming.id = last'.arg.id
        /\ last'.remainingOrder \in {0, last'.order}
        /\ Incoming.amount = Incoming.originalAmount - MatchedFrom(1)
        /\ Len(matches') = Len(matches) + Len(last'.matches)
        /\ \A k \in DOMAIN last'.matches :
              matches'[Len(matches) + k] = last'.matches[k]]_vars

\* C34 witness: a call that returned one match, appended to a history that
\* held a match already, and left the incoming order partly filled.
C34_Witness ==
    /\ last.op = "addOrder" /\ last.err = NoError
    /\ Len(last.matches) = 1
    /\ Len(matches) = 2
    /\ matches[2] = last.matches[1]
    /\ heap[last.order].amount = 1
    /\ heap[last.order].originalAmount = 2
    /\ last.remainingOrder = last.order
\* a stands before b in the buy collection: higher price, then older, then
\* smaller id.
BuyOrdered(a, b) ==
    \/ a.price > b.price
    \/ a.price = b.price /\ a.timestamp < b.timestamp
    \/ a.price = b.price /\ a.timestamp = b.timestamp /\ a.id <= b.id

\* a stands before b in the sell collection: lower price, then older, then
\* smaller id.
SellOrdered(a, b) ==
    \/ a.price < b.price
    \/ a.price = b.price /\ a.timestamp < b.timestamp
    \/ a.price = b.price /\ a.timestamp = b.timestamp /\ a.id <= b.id

\* C35: after every addOrder, cancelOrder and setState the buy collection is
\* ordered by descending price, then ascending timestamp, then id, and the
\* sell collection by ascending price, then ascending timestamp, then id;
\* the value getState returned lists the orders of the book in that order.
C35_CollectionsStaySorted ==
    /\ \A i, j \in DOMAIN buyOrders :
          i < j => BuyOrdered(heap[buyOrders[i]], heap[buyOrders[j]])
    /\ \A i, j \in DOMAIN sellOrders :
          i < j => SellOrdered(heap[sellOrders[i]], heap[sellOrders[j]])
    /\ snap.held =>
          /\ [i \in DOMAIN snap.buyOrders |-> heap[snap.buyOrders[i]].id]
                = [i \in DOMAIN buyOrders |-> heap[buyOrders[i]].id]
          /\ [i \in DOMAIN snap.sellOrders |-> heap[snap.sellOrders[i]].id]
                = [i \in DOMAIN sellOrders |-> heap[sellOrders[i]].id]

\* C35 witness: three buy orders of one price rest in the book, the older
\* one first although its id is the largest, the other two by id; getState
\* returned them.
C35_Witness ==
    /\ snap.held
    /\ Len(buyOrders) = 3
    /\ heap[buyOrders[1]].id = 3 /\ heap[buyOrders[1]].timestamp = 1
    /\ heap[buyOrders[2]].id = 1 /\ heap[buyOrders[2]].timestamp = 2
    /\ heap[buyOrders[3]].id = 2 /\ heap[buyOrders[3]].timestamp = 2
    /\ heap[buyOrders[1]].price = heap[buyOrders[3]].price
\* What identifies a record of the history: its amount, its price and the
\* ids of its two orders (an element that is no record: itself).
MatchKey(h, m) ==
    IF h[m].kind = "match"
    THEN [matchedAmount |-> h[m].matchedAmount, price |-> h[m].price,
          buyOrder |-> h[h[m].buyOrder].id, sellOrder |-> h[h[m].sellOrder].id]
    ELSE h[m]

\* The records the history held before the step are at their places after it.
HistoryKept ==
    \A k \in DOMAIN matches :
        /\ k \in DOMAIN matches'
        /\ MatchKey(heap', matches'[k]) = MatchKey(heap, matches[k])

\* C36 as stated: every operation of the book leaves the recorded matches in
\* place and in their order and can only add matches at the end.
C36_HistoryIsAppendOnly == [][HistoryKept]_vars

\* C36, amended: addOrder, cancelOrder, getState and a setState that fails
\* leave the recorded matches in place and in their order, and only addOrder
\* adds matches, at the end; a setState that succeeds replaces the history
\* by the matches of the state it was given.
C36_HistoryIsAppendOnlyButForSetState ==
    [][/\ (last'.op = "setState" /\ last'.err = NoError) \/ HistoryKept
       /\ last'.op \in {"cancelOrder", "getState"} =>
             Len(matches') = Len(matches)
       /\ (last'.op = "setState" /\ last'.err # NoError) =>
             Len(matches') = Len(matches)
       /\ last'.op = "addOrder" =>
             Len(matches') = Len(matches) + Len(last'.matches)]_vars

\* C36 witness: a cancelOrder took an order out of a book whose history holds
\* two matches.
C36_Witness ==
    /\ last.op = "cancelOrder"
    /\ last.order # 0
    /\ Len(matches) = 2
    /\ heap[matches[1]].kind = "match"
\* A submitOrder call holds the exclusive section and waits for its
\* broadcast.
Broadcasting(c) == node.sub[c].pc = "broadcasting"

\* C37: while a submitOrder call waits for its broadcast, cancelOrder can run
\* (unless a cancelOrder call is itself waiting for its broadcast) and the
\* periodic sync can start or, once requested, replace the book; whatever
\* they do to the book, the call keeps the result of its addOrder and
\* leaves only by returning it.
C37_CancelAndSyncRunBesideSubmit ==
    /\ [](\A c \in SubmitCalls : Broadcasting(c) =>
             /\ node.cancelCall.pc # "broadcasting" =>
                   \A orderId \in Ids : ENABLED NodeCancelOrder(orderId)
             /\ node.sync # "requesting" => ENABLED SyncStart
             /\ node.sync = "requesting" =>
                   \A response \in RaceReplies : ENABLED SyncReply(response))
    /\ [][\A c \in SubmitCalls : Broadcasting(c) =>
             /\ node'.sub[c].result = node.sub[c].result
             /\ node'.sub[c].pc \in {"broadcasting", "returned"}
             /\ node'.sub[c].err = NoError]_vars

\* C37 witness: a submission waits for its broadcast with a result that says
\* its order rests in the book, while the order it added was cancelled and
\* a sync has replaced the book, which holds nothing now.
C37_Witness ==
    /\ Broadcasting(1)
    /\ node.sub[1].result.remainingOrder = node.sub[1].result.order
    /\ node.cancelCall.pc = "returned"
    /\ node.cancelCall.result.kind = "order"
    /\ node.cancelCall.result.id = node.sub[1].result.order
    /\ node.sync = "applied"
    /\ last.op = "syncOrderbook"
    /\ buyOrders = <<>> /\ sellOrders = <<>>
\* C38: in a book that started empty and received addOrder and cancelOrder
\* calls only, no resting buy order has a price that is greater than or
\* equal to the price of a resting sell order.
C38_BookIsNotCrossed ==
    \A i \in DOMAIN buyOrders, j \in DOMAIN sellOrders :
        heap[buyOrders[i]].price < heap[sellOrders[j]].price
\* C38 witness: an incoming buy order took the sell order at its price and
\* rests with its remainder below the sell order that is left.
C38_Witness ==
    /\ last.op = "addOrder" /\ last.err = NoError
    /\ Len(last.matches) = 1
    /\ Len(buyOrders) = 1 /\ buyOrders[1] = last.order
    /\ Len(sellOrders) = 1
    /\ heap[buyOrders[1]].price = 1
    /\ heap[sellOrders[1]].price = 2
\* The orders resting in the book, buy collection first.
Resting == buyOrders \o sellOrders

\* C39: in every state of a node the buy collection holds BUY orders only
\* and the sell collection SELL orders only, every resting order is OPEN or
\* PARTIALLY_FILLED with an amount > 0, and no two resting orders have the
\* same id.
C39_RestingOrdersAreWellFormed ==
    /\ \A i \in DOMAIN buyOrders : heap[buyOrders[i]].type = BUY
    /\ \A i \in DOMAIN sellOrders : heap[sellOrders[i]].type = SELL
    /\ \A i \in DOMAIN Resting :
          isActive(heap[Resting[i]]) /\ heap[Resting[i]].amount > 0
    /\ \A i, j \in DOMAIN Resting :
          i # j => heap[Resting[i]].id # heap[Resting[j]].id
\* A submitOrder call was made and is not over.
InFlight(c) == node.sub[c].pc \in {"waiting", "acquired", "broadcasting"}

\* A submitOrder call is over: it returned or raised.
Completed(c) == node.sub[c].pc \in {"returned", "raised"}

\* C40: every submitOrder call that was made completes (returns or raises):
\* again and again no call is waiting for the exclusive section, holding it
\* or broadcasting, so a call that waits is admitted and a call that is
\* admitted leaves; a call that is over does not hold the section nor wait
\* for it.
C40_SubmitCompletesAndReleases ==
    /\ []<>(\A c \in SubmitCalls : ~InFlight(c))
    /\ [](\A c \in SubmitCalls :
             Completed(c) => node.holder # c /\ \A i \in DOMAIN node.queue :
                                                  node.queue[i] # c)

\* C40 witness: the first submission raised on its local addOrder and the
\* second one, which waited for the section meanwhile, has returned after
\* its broadcast; the section is free and nobody waits.
C40_Witness ==
    /\ node.sub[1].pc = "raised"
    /\ node.sub[1].err = "INVALID_ORDER_STATUS"
    /\ node.sub[2].pc = "returned"
    /\ node.holder = 0
    /\ node.queue = <<>>
    /\ node.role = "client"
    /\ last.op = "submitOrderReturn"

====
